---- MODULE Spec2Model ----
(***************************************************************************)
(* A model of the Locomotion Auto Animator add-on (src/laa_addon).         *)
(*                                                                         *)
(* Object, constraint, F-curve and track names are sequences of tokens, so *)
(* that Python's string tests (==, startswith, in) are computed on them.   *)
(* Positions are the x coordinate of a vector (x, 0, 0).                   *)
(***************************************************************************)
EXTENDS Integers, Sequences, FiniteSets, TLC

VARIABLES
    objects,        \* bpy.data.objects: name -> [type, parent, location]
    idprops,        \* custom properties of the curve objects flagged is_animation_path
    curve_data,     \* curve data-block of a path: name -> [path_duration, spline]
    props,          \* context.scene.animation_path_props
    active,         \* context.active_object (None when there is none)
    selected_path,  \* context.scene["_selected_animation_path"] (None when the key is absent)
    modifiers,      \* armature modifiers: object name -> sequence of modifier objects
    constraints,    \* constraints of each object: name -> sequence of [name, target]
    fcurves,        \* F-curves of each object's action: name -> (data_path -> keyframe frames)
    nla_tracks,     \* NLA tracks of each object: name -> set of track names
    last,           \* the operation that ran last, what it returned and the path it ran on
    fn_in,          \* the function under study and its arguments
    fn_out          \* its result, Pending until it is called

scene_vars == <<objects, idprops, curve_data, props, active, selected_path, modifiers,
                constraints, fcurves, nla_tracks, last>>

vars == <<objects, idprops, curve_data, props, active, selected_path, modifiers,
          constraints, fcurves, nla_tracks, last, fn_in, fn_out>>

None == <<>>

(***************************************************************************)
(* Bounds and input domains                                                *)
(***************************************************************************)
MaxPaths == 1
MaxAnimPaths == 2
MaxConstraints == 2

StartFrames == {1, 2}
EndFrames == {2, 3}
StartBlendFrames == {0, 2}
Positions == {0, 5}
ArmatureRelations == {"self", "child", "modifier", "grandchild", "none"}

(***************************************************************************)
(* Names                                                                   *)
(***************************************************************************)
Suffixes == <<".001", ".002", ".003", ".004", ".005", ".006">>

\* The name Blender gives a new datablock or constraint asked to be called base.
RECURSIVE FirstFree(_, _, _)
FirstFree(base, taken, k) ==
    IF k > Len(Suffixes) THEN base \o <<".999">>
    ELSE IF (base \o <<Suffixes[k]>>) \notin taken THEN base \o <<Suffixes[k]>>
    ELSE FirstFree(base, taken, k + 1)

UniqueName(base, taken) == IF base \notin taken THEN base ELSE FirstFree(base, taken, 1)

\* Python's "needle in haystack" on strings.
Contains(haystack, needle) ==
    \E i \in 0..(Len(haystack) - Len(needle)) :
        SubSeq(haystack, i + 1, i + Len(needle)) = needle

\* Python's haystack.startswith(prefix).
StartsWith(haystack, prefix) ==
    /\ Len(prefix) <= Len(haystack)
    /\ SubSeq(haystack, 1, Len(prefix)) = prefix

Range(s) == {s[i] : i \in DOMAIN s}

\* f with key k bound to v (a dict assignment, a new datablock).
Put(f, k, v) == [x \in (DOMAIN f) \cup {k} |-> IF x = k THEN v ELSE f[x]]

\* f without the keys in ks.
Drop(f, ks) == [x \in (DOMAIN f) \ ks |-> f[x]]

(***************************************************************************)
(* AnimationPath                                                           *)
(***************************************************************************)
AnimationPath_init_OffByOne(start_frame, end_frame, start_blend_frames, end_blend_frames) ==
    IF start_frame >= end_frame THEN "ValueError"
    ELSE LET total_frames == end_frame - start_frame
         IN  IF start_blend_frames + end_blend_frames >= total_frames
             THEN "ValueError" ELSE "ok"

\* AnimationPath.__init__: the validation that ends the constructor.
AnimationPath_init(start_frame, end_frame, start_blend_frames, end_blend_frames) ==
    IF start_frame >= end_frame THEN "ValueError"
    ELSE LET total_frames == end_frame - start_frame
         IN  IF start_blend_frames + end_blend_frames > total_frames
             THEN "ValueError" ELSE "ok"

\* The constructor applied to the panel properties p.
PropsValid(p) ==
    AnimationPath_init(p.start_frame, p.end_frame,
                       p.start_blend_frames, p.end_blend_frames) = "ok"

IsPath(W, name) == name # None /\ name \in DOMAIN W.objects /\ name \in DOMAIN W.idprops

(***************************************************************************)
(* The world the property callbacks read and write                         *)
(***************************************************************************)
World == [objects |-> objects, idprops |-> idprops, curve_data |-> curve_data,
          props |-> props, selected_path |-> selected_path]

Commit(W) ==
    /\ objects' = W.objects
    /\ idprops' = W.idprops
    /\ curve_data' = W.curve_data
    /\ props' = W.props
    /\ selected_path' = W.selected_path

ControlPointKey(point_type) ==
    IF point_type = "start" THEN "start_control_point" ELSE "end_control_point"

PosKey(point_type) == IF point_type = "start" THEN "start_pos" ELSE "end_pos"

\* The control point object of path obj, or None: obj.get(...) then bpy.data.objects.get(...).
ControlPoint(W, obj, point_type) ==
    LET point_name == W.idprops[obj][ControlPointKey(point_type)]
    IN  IF point_name # None /\ point_name \in DOMAIN W.objects THEN point_name ELSE None

\* point_obj.location = getattr(props, f"{point_type}_pos") for the control points that exist.
MoveControlPoints(W, obj) ==
    LET cps == {pt \in {"start", "end"} : ControlPoint(W, obj, pt) # None}
        moved(o) == \E pt \in cps : ControlPoint(W, obj, pt) = o
        kind(o) == CHOOSE pt \in cps : ControlPoint(W, obj, pt) = o
    IN  [o \in DOMAIN W.objects |->
            IF moved(o) THEN [W.objects[o] EXCEPT !.location = W.props[PosKey(kind(o))]]
            ELSE W.objects[o]]

\* load_path_properties_from_object, entered with _updating_properties clear:
\* the assignments run with the flag set, so no property callback acts.
load_path_properties_from_object(W, path_obj) ==
    IF ~IsPath(W, path_obj) THEN W
    ELSE LET ip == W.idprops[path_obj]
             target_obj_name == ip.target_object
             sp == ControlPoint(W, path_obj, "start")
             ep == ControlPoint(W, path_obj, "end")
             p1 == [W.props EXCEPT
                      !.start_frame = ip.start_frame,
                      !.end_frame = ip.end_frame,
                      !.start_pose = ip.start_pose,
                      !.end_pose = ip.end_pose,
                      !.anim = ip.anim,
                      !.start_blend_frames = ip.start_blend_frames,
                      !.end_blend_frames = ip.end_blend_frames,
                      !.target_object =
                          IF target_obj_name # None
                          THEN (IF target_obj_name \in DOMAIN W.objects
                                THEN target_obj_name ELSE @)
                          ELSE None,
                      !.start_pos = IF sp # None THEN W.objects[sp].location ELSE @,
                      !.end_pos = IF ep # None THEN W.objects[ep].location ELSE @]
         IN  [W EXCEPT !.props = p1, !.selected_path = path_obj]

\* The call of load_path_properties_from_object made by the except branch of
\* update_path_from_properties: _updating_properties is still set there, so the
\* guard of line 20 returns at once.
load_path_properties_from_object_guarded(W, path_obj) == W

\* What update_path_from_properties writes once the AnimationPath is built:
\* the stored properties up to use_rotation. The next statement reads
\* props.object_offset, a property AnimationPathProperties does not define
\* (it defines object_z_offset), so the AttributeError ends the function before
\* path_duration, target_object and the control points are written.
WritePath(W, path_obj) ==
    LET p == W.props
        ip == [W.idprops[path_obj] EXCEPT
                 !.start_frame = p.start_frame,
                 !.end_frame = p.end_frame,
                 !.start_pose = p.start_pose,
                 !.end_pose = p.end_pose,
                 !.anim = p.anim,
                 !.start_blend_frames = p.start_blend_frames,
                 !.end_blend_frames = p.end_blend_frames]
    IN  [W EXCEPT !.idprops = [@ EXCEPT ![path_obj] = ip]]

\* update_path_from_properties, entered with _updating_properties clear.
update_path_from_properties(W) ==
    LET selected_path_name == W.selected_path
    IN  IF selected_path_name = None THEN W
        ELSE IF ~IsPath(W, selected_path_name) THEN W
        ELSE IF PropsValid(W.props) THEN WritePath(W, selected_path_name)
        ELSE load_path_properties_from_object_guarded(W, selected_path_name)

\* What the callback did: "ignored" (no selected path), "ValueError" (the
\* validation failed) or "synced" (the stored properties were written).
UpdateOutcome(W) ==
    IF W.selected_path = None \/ ~IsPath(W, W.selected_path) THEN "ignored"
    ELSE IF PropsValid(W.props) THEN "synced" ELSE "ValueError"

\* An assignment to a panel property followed by its update callback
\* (property_update_callback).
SetProp(W, field, value) ==
    update_path_from_properties([W EXCEPT !.props[field] = value])


(***************************************************************************)
(* Initial scene: a target object ("Rig") and the armature that goes with  *)
(* it, no animation path, the panel at values the user can enter.          *)
(***************************************************************************)
Rig == <<"Rig">>
Armature == <<"Armature">>
Body == <<"Body">>

Obj(type, parent, location) ==
    [type |-> type, parent |-> parent, location |-> location, in_view_layer |-> TRUE]

SceneObjects(rel) ==
    IF rel = "self" THEN (Rig :> Obj("ARMATURE", None, 0))
    ELSE IF rel = "child"
        THEN (Rig :> Obj("MESH", None, 0)) @@ (Armature :> Obj("ARMATURE", Rig, 0))
    ELSE IF rel = "modifier"
        THEN (Rig :> Obj("MESH", None, 0)) @@ (Armature :> Obj("ARMATURE", None, 0))
    ELSE IF rel = "grandchild"
        THEN (Rig :> Obj("EMPTY", None, 0)) @@ (Body :> Obj("MESH", Rig, 0))
             @@ (Armature :> Obj("ARMATURE", Body, 0))
    ELSE (Rig :> Obj("MESH", None, 0))

SceneModifiers(rel) ==
    IF rel = "modifier" THEN (Rig :> <<Armature>>) ELSE (Rig :> <<>>)

InitProps ==
    [start_pos |-> 0, end_pos |-> 5, start_frame |-> 1, end_frame |-> 3,
     start_pose |-> "NONE", end_pose |-> "NONE", anim |-> "NONE",
     start_blend_frames |-> 0, end_blend_frames |-> 0,
     target_object |-> None, clear_existing_animation |-> TRUE]

NoOp == [op |-> "none", ret |-> "NONE", path |-> None, deleted |-> {}]

InitScene(rel) ==
    /\ objects = SceneObjects(rel)
    /\ modifiers = SceneModifiers(rel)
    /\ idprops = <<>>
    /\ curve_data = <<>>
    /\ props = InitProps
    /\ active = None
    /\ selected_path = None
    /\ constraints = <<>>
    /\ fcurves = <<>>
    /\ nla_tracks = <<>>
    /\ last = NoOp

\* The result of the function under study: not called yet, or returned.
Pending == [done |-> FALSE]
Returned(value) == [done |-> TRUE, value |-> value]

NoFunction ==
    /\ fn_in = [fn |-> "none"]
    /\ fn_out = Pending

\* A step of the scene calls none of the functions under study.
NoCall == UNCHANGED <<fn_in, fn_out>>

Paths == {o \in DOMAIN objects : o \in DOMAIN idprops}

Anim == <<constraints, fcurves, nla_tracks>>

(***************************************************************************)
(* Panel edits and the selection handler                                   *)
(***************************************************************************)
PropDomain(field) ==
    CASE field = "start_frame" -> StartFrames
      [] field = "end_frame" -> EndFrames
      [] field = "start_blend_frames" -> StartBlendFrames
      [] field = "start_pos" -> Positions
      [] field = "target_object" -> {None, Rig}

\* The user edits one panel property; Blender stores the value and calls
\* property_update_callback, which calls update_path_from_properties.
EditProperty(field, value) ==
    LET W0 == [World EXCEPT !.props[field] = value]
    IN  /\ value \in PropDomain(field)
        /\ Commit(update_path_from_properties(W0))
        /\ last' = [op |-> "update_path_from_properties", ret |-> UpdateOutcome(W0),
                    path |-> selected_path, deleted |-> {}]
        /\ UNCHANGED <<active, modifiers, Anim>>

\* clear_existing_animation has no update callback.
SetClearExisting(value) ==
    /\ props' = [props EXCEPT !.clear_existing_animation = value]
    /\ last' = [op |-> "clear_existing_animation", ret |-> "NONE", path |-> None,
                deleted |-> {}]
    /\ UNCHANGED <<objects, idprops, curve_data, active, selected_path, modifiers, Anim>>

\* selection_changed_handler, run by Blender after a dependency graph update.
selection_changed_handler ==
    /\ Commit(IF IsPath(World, active)
              THEN load_path_properties_from_object(World, active) ELSE World)
    /\ last' = [op |-> "selection_changed_handler", ret |-> "NONE", path |-> active,
                deleted |-> {}]
    /\ UNCHANGED <<active, modifiers, Anim>>

\* The user makes obj the active object; the dependency graph update that follows
\* runs selection_changed_handler.
SelectObject(obj) ==
    /\ obj \in DOMAIN objects
    /\ obj # active
    /\ active' = obj
    /\ Commit(IF IsPath(World, obj)
              THEN load_path_properties_from_object(World, obj) ELSE World)
    /\ last' = [op |-> "select", ret |-> "NONE", path |-> obj, deleted |-> {}]
    /\ UNCHANGED <<modifiers, Anim>>


(***************************************************************************)
(* Path operators                                                          *)
(***************************************************************************)
Ret(op, ret, path) == [op |-> op, ret |-> ret, path |-> path, deleted |-> {}]

PathBase == <<"AnimationPath">>

\* The custom properties create_blender_curve and create_control_points store.
NewPathProps(p, parent_empty, start_cp, end_cp) ==
    [start_frame |-> p.start_frame, end_frame |-> p.end_frame,
     start_pose |-> p.start_pose, end_pose |-> p.end_pose, anim |-> p.anim,
     start_blend_frames |-> p.start_blend_frames,
     end_blend_frames |-> p.end_blend_frames,
     target_object |-> p.target_object,
     laa_path_parent |-> parent_empty,
     start_control_point |-> start_cp, end_control_point |-> end_cp]

\* ANIMPATH_OT_create_path.execute, followed by the selection handler that the
\* new active object triggers.
ANIMPATH_OT_create_path ==
    IF ~PropsValid(props)
    THEN /\ last' = Ret("create_path", "CANCELLED", None)
         /\ UNCHANGED <<objects, idprops, curve_data, props, active, selected_path,
                        modifiers, Anim>>
    ELSE LET parent_empty == UniqueName(<<"LAA_Path_">> \o PathBase, DOMAIN objects)
             curve_obj == UniqueName(PathBase, (DOMAIN objects) \cup {parent_empty})
             start_cp == UniqueName(curve_obj \o <<"_start">>,
                                    (DOMAIN objects) \cup {parent_empty, curve_obj})
             end_cp == UniqueName(curve_obj \o <<"_end">>,
                                  (DOMAIN objects) \cup {parent_empty, curve_obj, start_cp})
             objs == (parent_empty :> Obj("EMPTY", None, 0))
                     @@ (curve_obj :> Obj("CURVE", parent_empty, 0))
                     @@ (start_cp :> Obj("EMPTY", parent_empty, props.start_pos))
                     @@ (end_cp :> Obj("EMPTY", parent_empty, props.end_pos))
                     @@ objects
             W1 == [World EXCEPT
                      !.objects = objs,
                      !.idprops = Put(@, curve_obj,
                                      NewPathProps(props, parent_empty, start_cp, end_cp)),
                      !.curve_data = Put(@, curve_obj,
                                         [path_duration |-> props.end_frame - props.start_frame,
                                          spline |-> <<props.start_pos, props.end_pos>>])]
         IN  /\ Commit(load_path_properties_from_object(W1, curve_obj))
             /\ active' = curve_obj
             /\ last' = Ret("create_path", "FINISHED", curve_obj)
             /\ UNCHANGED <<modifiers, Anim>>

\* What ANIMPATH_OT_update_path.execute writes once the AnimationPath is built.
UpdatePathWrites(W, obj) ==
    LET p == W.props
        ip == [W.idprops[obj] EXCEPT
                 !.start_frame = p.start_frame,
                 !.end_frame = p.end_frame,
                 !.start_pose = p.start_pose,
                 !.end_pose = p.end_pose,
                 !.anim = p.anim,
                 !.start_blend_frames = p.start_blend_frames,
                 !.end_blend_frames = p.end_blend_frames,
                 !.target_object = IF p.target_object # None THEN p.target_object ELSE @]
    IN  [W EXCEPT
           !.idprops = [@ EXCEPT ![obj] = ip],
           !.curve_data = [@ EXCEPT ![obj].path_duration = p.end_frame - p.start_frame],
           !.objects = MoveControlPoints(W, obj)]

ANIMPATH_OT_update_path_WritesFirst ==
    IF ~IsPath(World, active)
    THEN /\ last' = Ret("update_path", "CANCELLED", None)
         /\ UNCHANGED <<objects, idprops, curve_data, props, active, selected_path,
                        modifiers, Anim>>
    ELSE /\ Commit(UpdatePathWrites(World, active))
         /\ last' = Ret("update_path",
                        IF PropsValid(props) THEN "FINISHED" ELSE "CANCELLED", active)
         /\ UNCHANGED <<active, modifiers, Anim>>

\* ANIMPATH_OT_update_path.execute
ANIMPATH_OT_update_path ==
    IF ~IsPath(World, active)
    THEN /\ last' = Ret("update_path", "CANCELLED", None)
         /\ UNCHANGED <<objects, idprops, curve_data, props, active, selected_path,
                        modifiers, Anim>>
    ELSE IF ~PropsValid(props)
    THEN /\ last' = Ret("update_path", "CANCELLED", active)
         /\ UNCHANGED <<objects, idprops, curve_data, props, active, selected_path,
                        modifiers, Anim>>
    ELSE /\ Commit(UpdatePathWrites(World, active))
         /\ last' = Ret("update_path", "FINISHED", active)
         /\ UNCHANGED <<active, modifiers, Anim>>

\* The assignments of ANIMPATH_OT_load_path_to_properties.execute in order; each one
\* runs the update callback, and each right-hand side reads the object as the
\* callbacks before it left it.
LoadPathAssignments(W, obj) ==
    LET Assign(S, field) == {SetProp(w, field, w.idprops[obj][field]) : w \in S}
        S1 == Assign({W}, "start_frame")
        S2 == Assign(S1, "end_frame")
        S3 == Assign(S2, "start_pose")
        S4 == Assign(S3, "end_pose")
        S5 == Assign(S4, "anim")
        S6 == Assign(S5, "start_blend_frames")
        S7 == Assign(S6, "end_blend_frames")
        S8 == {IF w.idprops[obj].target_object # None
                  /\ w.idprops[obj].target_object \in DOMAIN w.objects
               THEN SetProp(w, "target_object", w.idprops[obj].target_object)
               ELSE w : w \in S7}
        S9 == {IF ControlPoint(w, obj, "start") # None
               THEN SetProp(w, "start_pos", w.objects[ControlPoint(w, obj, "start")].location)
               ELSE w : w \in S8}
        S10 == {IF ControlPoint(w, obj, "end") # None
                THEN SetProp(w, "end_pos", w.objects[ControlPoint(w, obj, "end")].location)
                ELSE w : w \in S9}
    IN  CHOOSE w \in S10 : TRUE

\* ANIMPATH_OT_load_path_to_properties.execute
ANIMPATH_OT_load_path_to_properties ==
    IF ~IsPath(World, active)
    THEN /\ last' = Ret("load_path_to_properties", "CANCELLED", None)
         /\ UNCHANGED <<objects, idprops, curve_data, props, active, selected_path,
                        modifiers, Anim>>
    ELSE /\ Commit(LoadPathAssignments(World, active))
         /\ last' = Ret("load_path_to_properties", "FINISHED", active)
         /\ UNCHANGED <<active, modifiers, Anim>>

\* ANIMPATH_OT_reset_curve_to_control_points.execute
ANIMPATH_OT_reset_curve_to_control_points ==
    IF ~IsPath(World, active)
    THEN /\ last' = Ret("reset_curve_to_control_points", "CANCELLED", None)
         /\ UNCHANGED <<objects, idprops, curve_data, props, active, selected_path,
                        modifiers, Anim>>
    ELSE LET sp == ControlPoint(World, active, "start")
             ep == ControlPoint(World, active, "end")
             control_points == {pt \in {sp, ep} : pt # None}
         IN  IF Cardinality(control_points) < 2
             THEN /\ last' = Ret("reset_curve_to_control_points", "CANCELLED", active)
                  /\ UNCHANGED <<objects, idprops, curve_data, props, active,
                                 selected_path, modifiers, Anim>>
             ELSE /\ curve_data' = [curve_data EXCEPT ![active].spline =
                                        <<objects[sp].location, objects[ep].location>>]
                  /\ last' = Ret("reset_curve_to_control_points", "FINISHED", active)
                  /\ UNCHANGED <<objects, idprops, props, active, selected_path,
                                 modifiers, Anim>>

\* bpy.data.objects.remove(o, do_unlink=True) for every o in gone: the objects
\* leave bpy.data.objects, their children lose their parent, and the active
\* object is cleared when it is among them.
RemoveObjects(gone) ==
    /\ objects' = [o \in (DOMAIN objects) \ gone |->
                      IF objects[o].parent \in gone
                      THEN [objects[o] EXCEPT !.parent = None] ELSE objects[o]]
    /\ idprops' = Drop(idprops, gone)
    /\ curve_data' = Drop(curve_data, gone)
    /\ active' = IF active \in gone THEN None ELSE active

\* The user deletes one of the empties of a path in the viewport.
BlenderDeleteObject(obj) ==
    /\ obj \in DOMAIN objects
    /\ objects[obj].type = "EMPTY"
    /\ obj # Rig
    /\ RemoveObjects({obj})
    /\ last' = Ret("blender_delete", "NONE", obj)
    /\ UNCHANGED <<props, selected_path, modifiers, Anim>>


(***************************************************************************)
(* Animation data of the target object and of its armature                 *)
(***************************************************************************)
ConstraintsOf(o) == IF o \in DOMAIN constraints THEN constraints[o] ELSE <<>>
FCurvesOf(o) == IF o \in DOMAIN fcurves THEN fcurves[o] ELSE <<>>
TracksOf(o) == IF o \in DOMAIN nla_tracks THEN nla_tracks[o] ELSE {}

\* f"FollowPath_{path_name}"
FollowPathName(path_name) == <<"FollowPath_">> \o path_name

\* f'constraints["{constraint_name}"].{prop}', the data path of a constraint F-curve.
DataPath(constraint_name, prop) ==
    <<"constraints[", "\"">> \o constraint_name \o <<"\"", "].", prop>>

\* f"LAA_{path_name}_"
TrackPrefix(path_name) == <<"LAA_">> \o path_name \o <<"_">>

TransformPaths == {<<"location">>, <<"rotation_euler">>, <<"rotation_quaternion">>}

\* keyframe_insert(data_path, frame) on the action fc.
InsertKeys(fc, data_path, frames) ==
    Put(fc, data_path, (IF data_path \in DOMAIN fc THEN fc[data_path] ELSE {}) \cup frames)

\* _find_armature: the target, a child, an armature modifier's object or a grandchild.
find_armature(target_obj) ==
    LET children(o) == {c \in DOMAIN objects : objects[c].parent = o}
        arm_children == {c \in children(target_obj) : objects[c].type = "ARMATURE"}
        mods == IF target_obj \in DOMAIN modifiers THEN modifiers[target_obj] ELSE <<>>
        arm_mods == SelectSeq(mods, LAMBDA m : m # None /\ m \in DOMAIN objects)
        arm_grand == {g \in DOMAIN objects :
                         /\ objects[g].type = "ARMATURE"
                         /\ objects[g].parent \in children(target_obj)}
    IN  IF objects[target_obj].type = "ARMATURE" THEN target_obj
        ELSE IF arm_children # {} THEN CHOOSE c \in arm_children : TRUE
        ELSE IF arm_mods # <<>> THEN Head(arm_mods)
        ELSE IF arm_grand # {} THEN CHOOSE g \in arm_grand : TRUE
        ELSE None

\* The test of _cleanup_object_animation that an F-curve "belongs to our constraint".
BelongsToPath(data_path, path_name) ==
    /\ StartsWith(data_path, <<"constraints[">>)
    /\ Contains(data_path, <<"offset_factor">>) \/ Contains(data_path, <<"influence">>)
    /\ Contains(data_path, FollowPathName(path_name))

\* _cleanup_object_animation: the F-curves of the target after the cleanup.
CleanedFCurves(fc, path_name, start_frame, end_frame) ==
    LET in_range(dp) == {kf \in fc[dp] : start_frame <= kf /\ kf <= end_frame + 1}
        is_constraint(dp) ==
            /\ StartsWith(dp, <<"constraints[">>)
            /\ Contains(dp, <<"offset_factor">>) \/ Contains(dp, <<"influence">>)
        removed(dp) ==
            IF is_constraint(dp) THEN BelongsToPath(dp, path_name)
            ELSE /\ dp \in TransformPaths
                 /\ in_range(dp) # {}
                 /\ in_range(dp) = fc[dp]
    IN  [dp \in {d \in DOMAIN fc : ~removed(d)} |->
            IF ~is_constraint(dp) /\ dp \in TransformPaths THEN fc[dp] \ in_range(dp)
            ELSE fc[dp]]

\* _cleanup_object_animation: the constraints of the target after the cleanup.
CleanedConstraints(cs, path_name) ==
    SelectSeq(cs, LAMBDA c : c.name # FollowPathName(path_name))

\* _cleanup_armature_animation: the NLA tracks of the armature after the cleanup.
CleanedTracks(tracks, path_name) ==
    {t \in tracks : ~StartsWith(t, TrackPrefix(path_name))}

\* _cleanup_animation_data: the animation data after the cleanup of path_obj.
cleanup_animation_data(path_obj) ==
    LET target_obj_name == idprops[path_obj].target_object
    IN  IF target_obj_name = None \/ target_obj_name \notin DOMAIN objects
        THEN [constraints |-> constraints, fcurves |-> fcurves, nla_tracks |-> nla_tracks]
        ELSE LET armature_obj == find_armature(target_obj_name)
             IN  [constraints |->
                      Put(constraints, target_obj_name,
                          CleanedConstraints(ConstraintsOf(target_obj_name), path_obj)),
                  fcurves |->
                      Put(fcurves, target_obj_name,
                          CleanedFCurves(FCurvesOf(target_obj_name), path_obj,
                                         idprops[path_obj].start_frame,
                                         idprops[path_obj].end_frame)),
                  nla_tracks |->
                      IF armature_obj = None THEN nla_tracks
                      ELSE Put(nla_tracks, armature_obj,
                               CleanedTracks(TracksOf(armature_obj), path_obj))]

\* Removing an object clears the constraint targets that point to it.
Untarget(cons, gone) ==
    [o \in DOMAIN cons |->
        [i \in DOMAIN cons[o] |->
            IF cons[o][i].target \in gone THEN [cons[o][i] EXCEPT !.target = None]
            ELSE cons[o][i]]]

\* ObjectsToDelete without the parent empty that groups the path.
ObjectsToDelete_KeepsParent(obj) ==
    {pt \in {ControlPoint(World, obj, "start"), ControlPoint(World, obj, "end")} :
        pt # None} \cup {obj}

\* The objects ANIMPATH_OT_delete_path.execute collects for deletion.
ObjectsToDelete(obj) ==
    LET parent_empty_name == idprops[obj].laa_path_parent
        parent_empty == IF parent_empty_name # None /\ parent_empty_name \in DOMAIN objects
                        THEN parent_empty_name ELSE None
    IN  IF parent_empty # None
        THEN {c \in DOMAIN objects : objects[c].parent = parent_empty} \cup {parent_empty}
        ELSE {pt \in {ControlPoint(World, obj, "start"), ControlPoint(World, obj, "end")} :
                 pt # None} \cup {obj}

\* ANIMPATH_OT_delete_path.execute
ANIMPATH_OT_delete_path ==
    IF ~IsPath(World, active)
    THEN /\ last' = Ret("delete_path", "CANCELLED", None)
         /\ UNCHANGED <<objects, idprops, curve_data, props, active, selected_path,
                        modifiers, Anim>>
    ELSE LET path_name == active
             cleaned == cleanup_animation_data(active)
             gone == ObjectsToDelete(active)
         IN  /\ RemoveObjects(gone)
             /\ constraints' = Untarget(Drop(cleaned.constraints, gone), gone)
             /\ fcurves' = Drop(cleaned.fcurves, gone)
             /\ nla_tracks' = Drop(cleaned.nla_tracks, gone)
             /\ selected_path' = IF selected_path = path_name THEN None ELSE selected_path
             /\ props' = [props EXCEPT !.target_object = IF @ \in gone THEN None ELSE @]
             /\ last' = [Ret("delete_path", "FINISHED", path_name) EXCEPT !.deleted = gone]
             /\ UNCHANGED modifiers

(***************************************************************************)
(* Animation operators                                                     *)
(***************************************************************************)
\* ANIMPATH_OT_set_target_object.execute: the assignment runs the update callback.
ANIMPATH_OT_set_target_object ==
    /\ Commit(IF active # None THEN SetProp(World, "target_object", active) ELSE World)
    /\ last' = Ret("set_target_object", "FINISHED", selected_path)
    /\ UNCHANGED <<active, modifiers, Anim>>

\* "for constraint in target_obj.constraints: ... remove(constraint)" removes from
\* the collection it iterates: every FOLLOW_PATH constraint goes, or the iteration
\* steps over the element that follows each removal.
FollowPathRemovalOutcomes(cs) ==
    {<<>>, [i \in 1..(Len(cs) \div 2) |-> cs[2 * i]]}

\* ANIMPATH_OT_animate_object_along_path.execute
ANIMPATH_OT_animate_object_along_path ==
    LET path_obj == active
        target_obj == IF IsPath(World, path_obj) THEN idprops[path_obj].target_object
                      ELSE None
    IN  IF \/ ~IsPath(World, path_obj)
           \/ target_obj = None
           \/ target_obj \notin DOMAIN objects
           \/ ~objects[target_obj].in_view_layer
        THEN /\ last' = Ret("animate_object_along_path", "CANCELLED", path_obj)
             /\ UNCHANGED <<objects, idprops, curve_data, props, active, selected_path,
                            modifiers, Anim>>
        ELSE LET start_frame == idprops[path_obj].start_frame
                 end_frame == idprops[path_obj].end_frame
                 clear == props.clear_existing_animation
                 fc0 == IF clear THEN <<>> ELSE FCurvesOf(target_obj)
                 armature_obj == find_armature(target_obj)
             IN  \E cs0 \in (IF clear THEN FollowPathRemovalOutcomes(ConstraintsOf(target_obj))
                             ELSE {ConstraintsOf(target_obj)}) :
                   LET follow_path == UniqueName(FollowPathName(path_obj),
                                                 {c.name : c \in Range(cs0)})
                       fc1 == InsertKeys(fc0, <<"rotation_euler">>,
                                         {start_frame, end_frame, end_frame + 1})
                       fc2 == InsertKeys(fc1, <<"location">>,
                                         {start_frame, end_frame, end_frame + 1})
                       fc3 == InsertKeys(fc2, DataPath(follow_path, "offset_factor"),
                                         {start_frame, end_frame})
                       fc4 == InsertKeys(fc3, DataPath(follow_path, "influence"),
                                         {start_frame - 1, start_frame, end_frame,
                                          end_frame + 1})
                   IN  /\ curve_data' = [curve_data EXCEPT ![path_obj].path_duration =
                                             end_frame - start_frame]
                       /\ constraints' = Put(constraints, target_obj,
                                             Append(cs0, [name |-> follow_path,
                                                          target |-> path_obj]))
                       /\ fcurves' = Put(fcurves, target_obj, fc4)
                       /\ nla_tracks' = IF clear THEN Put(nla_tracks, target_obj, {})
                                        ELSE nla_tracks
                       /\ active' = target_obj
                       \* _apply_rig_animations calls animation_library.create_nla_strips_for_path,
                       \* which animation_library does not define: with an armature the
                       \* AttributeError reaches "except Exception" and the operator is cancelled.
                       /\ last' = Ret("animate_object_along_path",
                                      IF armature_obj = None THEN "FINISHED" ELSE "CANCELLED",
                                      path_obj)
                       /\ UNCHANGED <<objects, idprops, props, selected_path, modifiers>>


(***************************************************************************)
(* Specifications                                                          *)
(***************************************************************************)
Selectable == Paths \cup {Rig}

EditFields == {"start_frame", "end_frame", "start_blend_frames", "start_pos"}

\* The panel and the path operators: the user edits the panel, changes the
\* selection and runs the path operators on up to MaxPaths paths.
Init == InitScene("self") /\ NoFunction

Next ==
    \/ NoCall /\ \E field \in EditFields : \E value \in PropDomain(field) :
                    EditProperty(field, value)
    \/ NoCall /\ \E obj \in Selectable : SelectObject(obj)
    \/ NoCall /\ selection_changed_handler
    \/ NoCall /\ Cardinality(Paths) < MaxPaths /\ ANIMPATH_OT_create_path
    \/ NoCall /\ ANIMPATH_OT_update_path
    \/ NoCall /\ ANIMPATH_OT_load_path_to_properties
    \/ NoCall /\ ANIMPATH_OT_reset_curve_to_control_points
    \/ NoCall /\ ANIMPATH_OT_delete_path
    \/ NoCall /\ \E path \in Paths : BlenderDeleteObject(idprops[path].start_control_point)

Spec == Init /\ [][Next]_vars

\* Animating targets: the user assigns targets, creates up to MaxAnimPaths paths
\* from the panel as it stands, animates and deletes them.
InitAnim == (\E rel \in ArmatureRelations : InitScene(rel)) /\ NoFunction

NextAnim ==
    \/ NoCall /\ \E obj \in Selectable : SelectObject(obj)
    \/ NoCall /\ active \notin Paths /\ ANIMPATH_OT_set_target_object
    \/ NoCall /\ \E value \in PropDomain("target_object") :
                    EditProperty("target_object", value)
    \/ NoCall /\ \E value \in BOOLEAN : SetClearExisting(value)
    \/ NoCall /\ Cardinality(Paths) < MaxAnimPaths /\ ANIMPATH_OT_create_path
    \/ NoCall /\ (\A o \in DOMAIN constraints : Len(constraints[o]) < MaxConstraints)
              /\ ANIMPATH_OT_animate_object_along_path
    \/ NoCall /\ ANIMPATH_OT_delete_path

SpecAnim == InitAnim /\ [][NextAnim]_vars


(***************************************************************************)
(* Properties of the panel and the path operators (Spec)                   *)
(***************************************************************************)
PathOperators == {"create_path", "update_path", "delete_path",
                  "load_path_to_properties", "reset_curve_to_control_points"}

PanelFields == {"start_frame", "end_frame", "start_pose", "end_pose", "anim",
                "start_blend_frames", "end_blend_frames"}

\* C2: a path operator that returns CANCELLED, and an update_path_from_properties
\* that meets a validation failure, leave the scene as it was: no object is
\* created or deleted, and no stored property of a path object, no path_duration
\* of a curve and no location of a control point changes.
C2_FailureLeavesSceneUnchanged ==
    [][(\/ last'.op \in PathOperators /\ last'.ret = "CANCELLED"
        \/ last'.op = "update_path_from_properties" /\ last'.ret = "ValueError")
       => UNCHANGED <<objects, idprops, curve_data>>]_vars

\* update_path was cancelled by the validation on a selected path.
C2_Witness ==
    /\ last.op = "update_path"
    /\ last.ret = "CANCELLED"
    /\ last.path \in Paths
    /\ ~PropsValid(props)

\* C3: when update_path_from_properties meets a validation failure, the panel
\* is back at the values stored on the selected path when it returns.
C3_PanelRevertedOnFailure ==
    (last.op = "update_path_from_properties" /\ last.ret = "ValueError")
        => \A field \in PanelFields : props[field] = idprops[last.path][field]

\* C4: a panel edit modifies the stored properties of a path only if that path
\* is the active object when the edit is made.
C4_EditsOnlyActivePath ==
    [][last'.op = "update_path_from_properties"
       => \A path \in DOMAIN idprops :
              (path \notin DOMAIN idprops' \/ idprops'[path] # idprops[path])
                  => path = active]_vars

\* A path as create_path builds it: the curve and its two control points under
\* the parent empty.
Intact(path) ==
    /\ IsPath(World, path)
    /\ idprops[path].laa_path_parent \in DOMAIN objects
    /\ objects[path].parent = idprops[path].laa_path_parent
    /\ \A cp \in {idprops[path].start_control_point, idprops[path].end_control_point} :
           /\ cp \in DOMAIN objects
           /\ objects[cp].parent = idprops[path].laa_path_parent

\* C5: after delete_path finishes on a path that create_path built, its curve,
\* its two control points and its parent empty are no longer objects, and
\* scene["_selected_animation_path"] does not name the deleted path.
C5_DeleteRemovesWholePath ==
    [][(last'.op = "delete_path" /\ last'.ret = "FINISHED" /\ Intact(active))
       => /\ {active, idprops[active].start_control_point,
              idprops[active].end_control_point,
              idprops[active].laa_path_parent} \cap DOMAIN objects' = {}
          /\ selected_path' # active]_vars

\* delete_path has removed the four objects of a path.
C5_Witness ==
    /\ last.op = "delete_path"
    /\ last.ret = "FINISHED"
    /\ Cardinality(last.deleted) = 4
    /\ last.path \in last.deleted
    /\ last.deleted \cap DOMAIN objects = {}
    /\ selected_path # last.path

(***************************************************************************)
(* Properties of the animation of targets (SpecAnim)                       *)
(***************************************************************************)
\* The paths that animate target: each has a Follow Path constraint of its name
\* on the target that follows it.
AnimatedBy(target) ==
    {path \in Paths :
        /\ idprops[path].target_object = target
        /\ \E i \in DOMAIN ConstraintsOf(target) :
               ConstraintsOf(target)[i] = [name |-> FollowPathName(path), target |-> path]}

\* C6: deleting path P leaves the data of every other path Q that animates the
\* same target as it was: the constraint FollowPath_Q, its offset_factor and
\* influence F-curves, and the NLA tracks LAA_Q_* of the armature.
C6_DeleteKeepsOtherPaths ==
    [][(last'.op = "delete_path" /\ last'.ret = "FINISHED")
       => \A target \in DOMAIN objects : \A Q \in AnimatedBy(target) \ {active} :
              active \in AnimatedBy(target)
              => /\ target \in DOMAIN constraints'
                 /\ \E i \in DOMAIN constraints'[target] :
                        constraints'[target][i]
                            = [name |-> FollowPathName(Q), target |-> Q]
                 /\ target \in DOMAIN fcurves'
                 /\ \A prop \in {"offset_factor", "influence"} :
                        LET dp == DataPath(FollowPathName(Q), prop)
                        IN  /\ dp \in DOMAIN fcurves'[target]
                            /\ fcurves'[target][dp] = fcurves[target][dp]
                 /\ \A arm \in DOMAIN nla_tracks :
                        /\ arm \in DOMAIN nla_tracks'
                        /\ {t \in nla_tracks'[arm] : StartsWith(t, TrackPrefix(Q))}
                               = {t \in nla_tracks[arm] : StartsWith(t, TrackPrefix(Q))}]_vars

\* C7: animate_object_along_path on an active path whose target exists, is in
\* the view layer and has an armature adds the Follow Path animation, applies
\* NLA strips to the armature and returns FINISHED.
C7_AnimateWithArmatureFinishes ==
    [][(/\ last'.op = "animate_object_along_path"
        /\ IsPath(World, active)
        /\ idprops[active].target_object \in DOMAIN objects
        /\ objects[idprops[active].target_object].in_view_layer
        /\ find_armature(idprops[active].target_object) # None)
       => LET target == idprops[active].target_object
              armature == find_armature(target)
          IN  /\ last'.ret = "FINISHED"
              /\ \E i \in DOMAIN constraints'[target] :
                     constraints'[target][i].target = active
              /\ armature \in DOMAIN nla_tracks'
              /\ nla_tracks'[armature] # {}]_vars


(***************************************************************************)
(* AnimationPath.__init__ on its own (SpecCtor)                            *)
(***************************************************************************)
MaxFrame == 4
MaxBlend == 3

\* The scene stays as constructed while a function is studied on its own.
FrozenScene == InitScene("self")

InitCtor ==
    /\ FrozenScene
    /\ fn_in \in [fn : {"AnimationPath"},
                  start_frame : 0..MaxFrame,
                  end_frame : 0..MaxFrame,
                  start_blend_frames : -1..MaxBlend,
                  end_blend_frames : -1..MaxBlend]
    /\ fn_out = Pending

\* AnimationPath(...): the constructor raises ValueError or returns.
ConstructAnimationPath ==
    /\ fn_in.fn = "AnimationPath"
    /\ fn_out = Pending
    /\ fn_out' = Returned(AnimationPath_init(fn_in.start_frame, fn_in.end_frame,
                                             fn_in.start_blend_frames,
                                             fn_in.end_blend_frames))
    /\ UNCHANGED <<fn_in, scene_vars>>

NextCtor == ConstructAnimationPath

SpecCtor == InitCtor /\ [][NextCtor]_vars

\* C1: constructing an AnimationPath raises ValueError exactly when
\* start_frame >= end_frame or start_blend_frames + end_blend_frames exceeds
\* end_frame - start_frame; every other combination is constructed.
C1_ValueErrorExactlyWhenInvalid ==
    (fn_in.fn = "AnimationPath" /\ fn_out.done)
        => /\ fn_out.value \in {"ValueError", "ok"}
           /\ fn_out.value = "ValueError"
                  <=> \/ fn_in.start_frame >= fn_in.end_frame
                      \/ fn_in.start_blend_frames + fn_in.end_blend_frames
                             > fn_in.end_frame - fn_in.start_frame

\* The constructor refused frames in order whose blends do not fit between them.
C1_Witness ==
    /\ fn_in.fn = "AnimationPath"
    /\ fn_out = Returned("ValueError")
    /\ fn_in.start_frame < fn_in.end_frame
    /\ fn_in.start_blend_frames + fn_in.end_blend_frames
           = fn_in.end_frame - fn_in.start_frame + 1

(***************************************************************************)
(* get_action_loop_range and set_action_loop_range (SpecLoop)              *)
(***************************************************************************)
MaxLoopFrame == 5
MaxDefaultLength == 2

\* An optional integer argument is None or <<n>>; Python takes None and 0 as false.
Truthy(opt) == opt # None /\ opt[1] # 0

\* get_action_loop_range with the frame_range ahead of the custom properties.
get_action_loop_range_FrameRangeFirst(action, default_length) ==
    IF action = None
    THEN <<0, IF Truthy(default_length) THEN default_length[1] ELSE 100>>
    ELSE LET action_start == action.frame_range[1]
             action_end == action.frame_range[2]
         IN  IF Truthy(default_length)
                /\ (action_end - action_start) > default_length[1] * 2
             THEN <<action_start, action_start + default_length[1]>>
             ELSE <<action_start, action_end>>

\* get_action_loop_range(action, default_length=None); action.custom holds the
\* custom properties of the action.
get_action_loop_range(action, default_length) ==
    IF action = None
    THEN <<0, IF Truthy(default_length) THEN default_length[1] ELSE 100>>
    ELSE IF "loop_start" \in DOMAIN action.custom /\ "loop_end" \in DOMAIN action.custom
    THEN <<action.custom["loop_start"], action.custom["loop_end"]>>
    ELSE LET action_start == action.frame_range[1]
             action_end == action.frame_range[2]
         IN  IF Truthy(default_length)
                /\ (action_end - action_start) > default_length[1] * 2
             THEN <<action_start, action_start + default_length[1]>>
             ELSE <<action_start, action_end>>

\* set_action_loop_range(action, loop_start, loop_end)
set_action_loop_range(action, loop_start, loop_end) ==
    IF action # None
    THEN [action EXCEPT !.custom = Put(Put(@, "loop_start", loop_start),
                                       "loop_end", loop_end)]
    ELSE action

LoopFrames == 0..MaxLoopFrame

\* The actions of the library: their keyframe range, and the custom properties
\* a user has put on them by hand.
Actions ==
    {[frame_range |-> <<a, b>>, custom |-> c] :
        a \in LoopFrames, b \in LoopFrames,
        c \in {<<>>} \cup {[k \in {"loop_start"} |-> 1], [k \in {"loop_end"} |-> 2]}}

InitLoop ==
    /\ FrozenScene
    /\ fn_in \in [fn : {"get_action_loop_range"},
                  action : {None} \cup {a \in Actions : a.frame_range[1] <= a.frame_range[2]},
                  default_length : {None} \cup {<<n>> : n \in 0..MaxDefaultLength}]
    /\ fn_out = Pending

SetActionLoopRange ==
    /\ fn_in.fn = "get_action_loop_range"
    /\ fn_out = Pending
    /\ \E loop_start \in {0, 1}, loop_end \in {3, MaxLoopFrame} :
           fn_in' = [fn_in EXCEPT !.action = set_action_loop_range(@, loop_start, loop_end)]
    /\ UNCHANGED <<fn_out, scene_vars>>

GetActionLoopRange ==
    /\ fn_in.fn = "get_action_loop_range"
    /\ fn_out = Pending
    /\ fn_out' = Returned(get_action_loop_range(fn_in.action, fn_in.default_length))
    /\ UNCHANGED <<fn_in, scene_vars>>

NextLoop ==
    \/ SetActionLoopRange
    \/ GetActionLoopRange

SpecLoop == InitLoop /\ [][NextLoop]_vars

\* C10: get_action_loop_range resolves the loop range by priority: without an
\* action (0, default_length or 100); with both loop_start and loop_end custom
\* properties exactly those; otherwise the frame_range of the action, cut to
\* (start, start + default_length) when a default_length is given and the
\* frame_range is longer than twice that.
C10_LoopRangePriority ==
    (fn_in.fn = "get_action_loop_range" /\ fn_out.done)
        => LET action == fn_in.action
               default_length == fn_in.default_length
           IN  IF action = None
               THEN fn_out.value = <<0, IF Truthy(default_length) THEN default_length[1] ELSE 100>>
               ELSE IF {"loop_start", "loop_end"} \subseteq DOMAIN action.custom
               THEN fn_out.value = <<action.custom["loop_start"], action.custom["loop_end"]>>
               ELSE IF /\ Truthy(default_length)
                       /\ action.frame_range[2] - action.frame_range[1]
                              > 2 * default_length[1]
               THEN fn_out.value = <<action.frame_range[1],
                               action.frame_range[1] + default_length[1]>>
               ELSE fn_out.value = action.frame_range

\* The custom properties won over a frame_range that the default length would cut.
C10_Witness ==
    /\ fn_in.fn = "get_action_loop_range"
    /\ fn_in.action # None
    /\ {"loop_start", "loop_end"} \subseteq DOMAIN fn_in.action.custom
    /\ Truthy(fn_in.default_length)
    /\ fn_in.action.frame_range[2] - fn_in.action.frame_range[1]
           > 2 * fn_in.default_length[1]
    /\ fn_out = Returned(<<fn_in.action.custom["loop_start"],
                            fn_in.action.custom["loop_end"]>>)
    /\ fn_out # Returned(<<fn_in.action.frame_range[1],
                            fn_in.action.frame_range[1] + fn_in.default_length[1]>>)


(***************************************************************************)
(* Exact arithmetic for the float computations: a number is <<n, d>>, the  *)
(* fraction n/d in lowest terms with d > 0                                 *)
(***************************************************************************)
Abs(x) == IF x < 0 THEN -x ELSE x

RECURSIVE GCD(_, _)
GCD(a, b) == IF b = 0 THEN a ELSE GCD(b, a % b)

Rat(n, d) ==
    LET g == GCD(Abs(n), Abs(d))
        sign == IF d < 0 THEN -1 ELSE 1
    IN  <<(sign * n) \div g, (sign * d) \div g>>

Q(n) == <<n, 1>>
RAdd(a, b) == Rat(a[1] * b[2] + b[1] * a[2], a[2] * b[2])
RSub(a, b) == Rat(a[1] * b[2] - b[1] * a[2], a[2] * b[2])
RMul(a, b) == Rat(a[1] * b[1], a[2] * b[2])
RDiv(a, b) == Rat(a[1] * b[2], a[2] * b[1])
RLt(a, b) == a[1] * b[2] < b[1] * a[2]
RLe(a, b) == a[1] * b[2] <= b[1] * a[2]
RAbs(a) == <<Abs(a[1]), a[2]>>
RMax(a, b) == IF RLt(a, b) THEN b ELSE a

\* The value of an expression, computed once.
Strict(S) == CHOOSE x \in S : TRUE

(***************************************************************************)
(* _calculate_discrete_speed_changes (SpecSpeed)                           *)
(***************************************************************************)
MaxSegments == 3
MaxSegmentFrames == 2
MaxActionLength == 3

\* "abs(speed - last_speed) > 0.02"
SpeedChangeThreshold == <<1, 50>>

\* The dictionary appended for one strip.
SpeedChange(pos, strip_duration, speed, action_length) ==
    [timeline_start |-> pos,
     timeline_end |-> RSub(RAdd(pos, strip_duration), Q(1)),
     speed |-> speed,
     strip_duration |-> strip_duration,
     loop_cycles |-> RDiv(strip_duration, RDiv(Q(action_length), speed))]

\* The pass that starts a strip for every segment, whatever its speed.
SpeedChangeStep_EverySegment(st, segment, action_length, timeline_end) ==
    LET speed == segment.speed_multiplier
        remaining_timeline == RAdd(RSub(Q(timeline_end), st.current_timeline_pos), Q(1))
        one_loop == RDiv(Q(action_length), speed)
        strip_duration ==
            IF RLt(Q(timeline_end + 1), RAdd(st.current_timeline_pos, one_loop))
            THEN RAdd(RSub(Q(timeline_end), st.current_timeline_pos), Q(1))
            ELSE one_loop
    IN  IF TRUE
        THEN IF RLe(remaining_timeline, Q(0)) THEN [st EXCEPT !.broken = TRUE]
             ELSE [speed_changes |->
                       Append(st.speed_changes,
                              SpeedChange(st.current_timeline_pos, strip_duration,
                                          speed, action_length)),
                   current_timeline_pos |-> RAdd(st.current_timeline_pos, strip_duration),
                   last_speed |-> speed,
                   broken |-> FALSE]
        ELSE st

\* One pass of "for segment in speed_data"; st.broken records the break.
SpeedChangeStep(st, segment, action_length, timeline_end) ==
    LET speed == segment.speed_multiplier
        remaining_timeline == RAdd(RSub(Q(timeline_end), st.current_timeline_pos), Q(1))
        one_loop == RDiv(Q(action_length), speed)
        strip_duration ==
            IF RLt(Q(timeline_end + 1), RAdd(st.current_timeline_pos, one_loop))
            THEN RAdd(RSub(Q(timeline_end), st.current_timeline_pos), Q(1))
            ELSE one_loop
    IN  IF st.last_speed = None
           \/ RLt(SpeedChangeThreshold, RAbs(RSub(speed, st.last_speed)))
        THEN IF RLe(remaining_timeline, Q(0)) THEN [st EXCEPT !.broken = TRUE]
             ELSE [speed_changes |->
                       Append(st.speed_changes,
                              SpeedChange(st.current_timeline_pos, strip_duration,
                                          speed, action_length)),
                   current_timeline_pos |-> RAdd(st.current_timeline_pos, strip_duration),
                   last_speed |-> speed,
                   broken |-> FALSE]
        ELSE st

RECURSIVE SpeedChangeLoop(_, _, _, _, _)
SpeedChangeLoop(st, speed_data, i, action_length, timeline_end) ==
    IF i > Len(speed_data) \/ st.broken THEN st
    ELSE Strict({SpeedChangeLoop(next, speed_data, i + 1, action_length, timeline_end) :
                    next \in {SpeedChangeStep(st, speed_data[i], action_length,
                                              timeline_end)}})

\* "If we haven't reached the timeline end, extend the last strip."
ExtendLastStrip(speed_changes, action_length, timeline_end) ==
    LET last_strip == speed_changes[Len(speed_changes)]
        adjustment == RSub(Q(timeline_end), last_strip.timeline_end)
        strip_duration == RAdd(last_strip.strip_duration, adjustment)
    IN  IF RLt(last_strip.timeline_end, Q(timeline_end))
        THEN [speed_changes EXCEPT ![Len(speed_changes)] =
                 [last_strip EXCEPT
                    !.timeline_end = Q(timeline_end),
                    !.strip_duration = strip_duration,
                    !.loop_cycles = RDiv(strip_duration,
                                         RDiv(Q(action_length), last_strip.speed))]]
        ELSE speed_changes

\* The loop of _calculate_discrete_speed_changes.
SpeedChangesOf(speed_data, action_length) ==
    SpeedChangeLoop([speed_changes |-> <<>>,
                     current_timeline_pos |-> Q(speed_data[1].start_frame),
                     last_speed |-> None,
                     broken |-> FALSE],
                    speed_data, 1, action_length,
                    speed_data[Len(speed_data)].end_frame).speed_changes

\* _calculate_discrete_speed_changes without the extension of the last strip.
calculate_discrete_speed_changes_NoExtension(speed_data, action_length) ==
    IF speed_data = <<>> THEN <<>>
    ELSE SpeedChangesOf(speed_data, action_length)

\* _calculate_discrete_speed_changes(speed_data, action_length)
calculate_discrete_speed_changes(speed_data, action_length) ==
    IF speed_data = <<>> THEN <<>>
    ELSE Strict({IF speed_changes # <<>>
                 THEN ExtendLastStrip(speed_changes, action_length,
                                      speed_data[Len(speed_data)].end_frame)
                 ELSE speed_changes :
                    speed_changes \in {SpeedChangesOf(speed_data, action_length)}})

\* Speed multipliers: half, normal, one percent faster, double.
Speeds == {<<1, 2>>, <<1, 1>>, <<101, 100>>, <<2, 1>>}

RECURSIVE SumTo(_, _)
SumTo(lengths, i) == IF i = 0 THEN 0 ELSE lengths[i] + SumTo(lengths, i - 1)

\* The segments convert_speed_data_to_segments hands over: adjacent, from frame 1.
SpeedData ==
    UNION {{[i \in 1..n |-> [start_frame |-> 1 + SumTo(lengths, i - 1),
                             end_frame |-> SumTo(lengths, i),
                             speed_multiplier |-> speeds[i]]] :
               lengths \in [1..n -> 1..MaxSegmentFrames], speeds \in [1..n -> Speeds]} :
           n \in 1..MaxSegments}

InitSpeed ==
    /\ FrozenScene
    /\ fn_in \in [fn : {"_calculate_discrete_speed_changes"},
                  speed_data : SpeedData,
                  action_length : 1..MaxActionLength]
    /\ fn_out = Pending

CalculateDiscreteSpeedChanges ==
    /\ fn_in.fn = "_calculate_discrete_speed_changes"
    /\ fn_out = Pending
    /\ fn_out' = Returned(calculate_discrete_speed_changes(fn_in.speed_data,
                                                           fn_in.action_length))
    /\ UNCHANGED <<fn_in, scene_vars>>

NextSpeed == CalculateDiscreteSpeedChanges

SpecSpeed == InitSpeed /\ [][NextSpeed]_vars

OneLoop(strip, action_length) ==
    /\ strip.strip_duration = RDiv(Q(action_length), strip.speed)
    /\ strip.loop_cycles = Q(1)

C16_StripsOnlyOnSpeedChange ==
    (fn_in.fn = "_calculate_discrete_speed_changes" /\ fn_out.done)
        => LET strips == fn_out.value
           IN  /\ Len(strips) <= Len(fn_in.speed_data)
               /\ \A i \in 1..(Len(strips) - 1) :
                      RLt(SpeedChangeThreshold,
                          RAbs(RSub(strips[i + 1].speed, strips[i].speed)))

\* Of three segments the second, one percent faster than the first, started no
\* strip and the third did.
C16_Witness ==
    /\ fn_in.fn = "_calculate_discrete_speed_changes"
    /\ fn_out.done
    /\ Len(fn_in.speed_data) = 3
    /\ fn_in.speed_data[1].speed_multiplier = <<1, 1>>
    /\ fn_in.speed_data[2].speed_multiplier = <<101, 100>>
    /\ Len(fn_out.value) = 2
    /\ fn_out.value[2].speed = fn_in.speed_data[3].speed_multiplier


(***************************************************************************)
(* create_discrete_speed_nla_strips and the action library (SpecStrips)    *)
(***************************************************************************)
\* path_obj.get("default_loop_length", 30), scaled down to the frames used here.
DefaultLoopLengths == {<<0>>, <<1>>, <<2>>}

\* frame_start and frame_end of the first scene of a library file; None when
\* no scene came out of the file.
SceneTimelines == {None, <<1, 3>>, <<0, MaxLoopFrame>>}

\* The .blend file of the animation: None when the file does not exist.
LibraryFiles ==
    {None} \cup [action : {a \in Actions : a.frame_range[1] <= a.frame_range[2]},
                 scene : SceneTimelines]

\* One segment at normal speed, and two segments of which the second is faster.
StripSpeedData ==
    {sd \in SpeedData :
        /\ sd[1].speed_multiplier = <<1, 1>>
        /\ sd[1].end_frame = MaxSegmentFrames
        /\ Len(sd) <= 2
        /\ Len(sd) = 2 => (sd[2].speed_multiplier = <<2, 1>>
                           /\ sd[2].end_frame = 2 * MaxSegmentFrames)}

\* load_action_from_file that does not store the scene timeline on the action.
load_action_from_file_NoTimeline(action_cache, library_file, default_loop_length) ==
    IF action_cache # None THEN action_cache
    ELSE IF library_file = None THEN None
    ELSE library_file.action

\* load_action_from_file(filename, is_pose=False, default_loop_length):
\* action_cache is _action_cache[cache_key] (None: no entry), library_file the
\* file behind filename.
load_action_from_file(action_cache, library_file, default_loop_length) ==
    IF action_cache # None THEN action_cache
    ELSE IF library_file = None THEN None
    ELSE LET loaded_action == library_file.action
             action_keyframe_start == loaded_action.frame_range[1]
         IN  IF library_file.scene # None
             THEN set_action_loop_range(loaded_action, library_file.scene[1],
                                        library_file.scene[2])
             ELSE IF /\ Truthy(default_loop_length)
                     /\ "loop_start" \notin DOMAIN loaded_action.custom
                     /\ "loop_end" \notin DOMAIN loaded_action.custom
             THEN set_action_loop_range(loaded_action, action_keyframe_start,
                                        action_keyframe_start + default_loop_length[1])
             ELSE loaded_action

\* create_discrete_speed_nla_strips(target_obj, path_obj, speed_data) for a path
\* whose anim is set: the action it loaded, the action_length it computed, the
\* strips it sized and its return value. An action_length of 0 ends in the
\* ZeroDivisionError of the extension of the last strip, which the function
\* catches to return False.
create_discrete_speed_nla_strips(action_cache, library_file, default_loop_length, speed_data) ==
    LET main_action == load_action_from_file(action_cache, library_file,
                                             default_loop_length)
    IN  IF main_action = None
        THEN [result |-> FALSE, main_action |-> None, action_length |-> None,
              speed_changes |-> <<>>]
        ELSE LET range == get_action_loop_range(main_action, default_loop_length)
                 scene_start == range[1]
                 scene_end == range[2]
                 action_length == scene_end - scene_start
             IN  IF action_length = 0
                 THEN [result |-> FALSE, main_action |-> main_action,
                       action_length |-> <<action_length>>, speed_changes |-> <<>>]
                 ELSE Strict({[result |-> speed_changes # <<>>,
                               main_action |-> main_action,
                               action_length |-> <<action_length>>,
                               speed_changes |-> speed_changes] :
                                 speed_changes \in
                                     {calculate_discrete_speed_changes(speed_data,
                                                                       action_length)}})

InitStrips ==
    /\ FrozenScene
    /\ fn_in \in [fn : {"create_discrete_speed_nla_strips"},
                  action_cache : {None},
                  library_file : LibraryFiles,
                  default_loop_length : DefaultLoopLengths,
                  speed_data : StripSpeedData]
    /\ fn_out = Pending

\* The operator runs: the action it loaded stays in _action_cache.
CreateDiscreteSpeedNlaStrips ==
    /\ fn_in.fn = "create_discrete_speed_nla_strips"
    /\ LET out == create_discrete_speed_nla_strips(fn_in.action_cache, fn_in.library_file,
                                                   fn_in.default_loop_length,
                                                   fn_in.speed_data)
       IN  /\ fn_out' = Returned(out)
           /\ fn_in' = [fn_in EXCEPT !.action_cache = out.main_action]
    /\ UNCHANGED scene_vars

\* clear_action_cache()
ClearActionCache ==
    /\ fn_in.fn = "create_discrete_speed_nla_strips"
    /\ fn_in.action_cache # None
    /\ fn_in' = [fn_in EXCEPT !.action_cache = None]
    /\ fn_out' = Pending
    /\ UNCHANGED scene_vars

NextStrips ==
    \/ CreateDiscreteSpeedNlaStrips
    \/ ClearActionCache

SpecStrips == InitStrips /\ [][NextStrips]_vars

StripsCreated ==
    /\ fn_in.fn = "create_discrete_speed_nla_strips"
    /\ fn_out.done
    /\ fn_out.value.result

\* C11 as stated: the action_length that sizes the strips is the length of the
\* frame_range of the source action.
C11_ActionLengthIsFrameRange ==
    StripsCreated
        => fn_out.value.action_length
               = <<fn_out.value.main_action.frame_range[2]
                       - fn_out.value.main_action.frame_range[1]>>

\* C11, amended: the action_length that sizes the strips is loop_end - loop_start
\* of the loop_start and loop_end custom properties of the source action when it
\* has both, and load_action_from_file stores the scene timeline of the library
\* file there; only without them it is the length of the frame_range, cut to
\* default_loop_length when the frame_range is longer than twice that.
C11_ActionLengthIsLoopRange ==
    StripsCreated
        => LET action == fn_out.value.main_action
               default_length == fn_in.default_loop_length
               length == action.frame_range[2] - action.frame_range[1]
           IN  /\ fn_in.library_file.scene # None
                    => fn_out.value.action_length
                           = <<fn_in.library_file.scene[2] - fn_in.library_file.scene[1]>>
               /\ fn_out.value.action_length =
                    IF {"loop_start", "loop_end"} \subseteq DOMAIN action.custom
                    THEN <<action.custom["loop_end"] - action.custom["loop_start"]>>
                    ELSE IF Truthy(default_length) /\ length > 2 * default_length[1]
                    THEN default_length
                    ELSE <<length>>
               /\ fn_out.value.speed_changes[1].strip_duration
                    \in {RDiv(Q(fn_out.value.action_length[1]),
                              fn_out.value.speed_changes[1].speed),
                         RAdd(RSub(fn_out.value.speed_changes[1].timeline_end,
                                   fn_out.value.speed_changes[1].timeline_start), Q(1))}

\* Strips were sized by the scene timeline of the library file, which is not as
\* long as the frame_range of the action.
C11_Witness ==
    /\ StripsCreated
    /\ fn_in.library_file.scene # None
    /\ fn_out.value.action_length
           = <<fn_in.library_file.scene[2] - fn_in.library_file.scene[1]>>
    /\ fn_out.value.action_length
           # <<fn_out.value.main_action.frame_range[2]
                  - fn_out.value.main_action.frame_range[1]>>
    /\ Len(fn_out.value.speed_changes) = 2


(***************************************************************************)
(* keyframe_reduction.py (SpecReduce): points are <<frame, value>>, indices *)
(* count from 0 as in the code                                             *)
(***************************************************************************)
MaxPoints == 5
MaxValue == 2
MaxIterations == 2

\* points[i]
PointAt(points, i) == points[i + 1]

RECURSIVE SortedSeq(_)
SortedSeq(S) ==
    IF S = {} THEN <<>>
    ELSE LET least == CHOOSE x \in S : \A y \in S : x <= y
         IN  <<least>> \o SortedSeq(S \ {least})

SignChange(a, b) ==
    \/ RLt(Q(0), a) /\ RLt(b, Q(0))
    \/ RLt(a, Q(0)) /\ RLt(Q(0), b)

\* first_derivatives[i]
FirstDerivative(points, i) ==
    LET dx == RSub(PointAt(points, i + 1)[1], PointAt(points, i)[1])
        dy == RSub(PointAt(points, i + 1)[2], PointAt(points, i)[2])
    IN  IF dx # Q(0) THEN RDiv(dy, dx) ELSE Q(0)

\* second_derivatives[i]
SecondDerivative(points, i) ==
    RSub(FirstDerivative(points, i + 1), FirstDerivative(points, i))

\* "inflection_threshold = 0.001"
InflectionThreshold == <<1, 1000>>

\* find_critical_points(points): the set of the indices it returns sorted.
find_critical_points(points) ==
    LET n == Len(points)
    IN  IF n < 3 THEN (IF n > 1 THEN {0, n - 1} ELSE {0})
        ELSE {0, n - 1}
             \cup {i \in 1..(n - 2) :
                      SignChange(FirstDerivative(points, i - 1), FirstDerivative(points, i))}
             \cup {i + 1 : i \in {k \in 1..(n - 3) :
                      /\ RLt(InflectionThreshold,
                             RAbs(RSub(SecondDerivative(points, k - 1),
                                       SecondDerivative(points, k))))
                      /\ SignChange(SecondDerivative(points, k - 1),
                                    SecondDerivative(points, k))}}

\* perpendicular_distance(point, line_start, line_end), squared: the code takes
\* square roots and compares distances, which compare as their squares do.
perpendicular_distance_squared(point, line_start, line_end) ==
    LET x0 == point[1]
        y0 == point[2]
        x1 == line_start[1]
        y1 == line_start[2]
        x2 == line_end[1]
        y2 == line_end[2]
        numerator == RAbs(RAdd(RSub(RMul(RSub(y2, y1), x0), RMul(RSub(x2, x1), y0)),
                               RSub(RMul(x2, y1), RMul(y2, x1))))
        denominator_squared == RAdd(RMul(RSub(y2, y1), RSub(y2, y1)),
                                    RMul(RSub(x2, x1), RSub(x2, x1)))
    IN  IF x1 = x2 /\ y1 = y2
        THEN RAdd(RMul(RSub(x0, x1), RSub(x0, x1)), RMul(RSub(y0, y1), RSub(y0, y1)))
        ELSE IF RLt(Q(0), denominator_squared)
             THEN RDiv(RMul(numerator, numerator), denominator_squared)
             ELSE Q(0)

\* "for i in range(start_idx + 1, end_idx)": the first point farthest from the line.
RECURSIVE FarthestPoint(_, _, _, _, _)
FarthestPoint(points, start_idx, end_idx, i, far) ==
    IF i >= end_idx THEN far
    ELSE LET distance == perpendicular_distance_squared(PointAt(points, i),
                                                        PointAt(points, start_idx),
                                                        PointAt(points, end_idx))
         IN  Strict({FarthestPoint(points, start_idx, end_idx, i + 1, next) :
                        next \in {IF RLt(far.max_distance, distance)
                                  THEN [max_distance |-> distance, max_index |-> i]
                                  ELSE far}})

\* douglas_peucker_recursive(start_idx, end_idx)
RECURSIVE douglas_peucker_recursive(_, _, _, _)
douglas_peucker_recursive(points, tolerance, start_idx, end_idx) ==
    IF end_idx <= start_idx + 1 THEN <<start_idx, end_idx>>
    ELSE LET far == Strict({FarthestPoint(points, start_idx, end_idx, start_idx + 1,
                                          [max_distance |-> Q(0),
                                           max_index |-> start_idx])})
         IN  IF RLt(RMul(tolerance, tolerance), far.max_distance)
             THEN LET left_points == douglas_peucker_recursive(points, tolerance,
                                                               start_idx, far.max_index)
                      right_points == douglas_peucker_recursive(points, tolerance,
                                                                far.max_index, end_idx)
                  IN  SubSeq(left_points, 1, Len(left_points) - 1) \o right_points
             ELSE <<start_idx, end_idx>>

\* A reduction that keeps the two ends and nothing else.
douglas_peucker_reduce_EndsOnly(points, tolerance) ==
    IF Len(points) < 2 THEN [i \in 1..Len(points) |-> i - 1]
    ELSE <<0, Len(points) - 1>>

\* douglas_peucker_reduce(points, tolerance): the indices to keep, sorted.
douglas_peucker_reduce(points, tolerance) ==
    IF Len(points) < 2 THEN [i \in 1..Len(points) |-> i - 1]
    ELSE SortedSeq(Range(douglas_peucker_recursive(points, tolerance, 0, Len(points) - 1)))

\* KeyframeData(frame, value)
KeyframeData(frame, value) ==
    [frame |-> frame, value |-> value, handle_left |-> None, handle_right |-> None]

\* The body of "for i, keyframe in enumerate(keyframes)", i counted from 1.
KeyframeWithHandles(keyframes, i) ==
    LET keyframe == keyframes[i]
        has_prev == i > 1
        has_next == i < Len(keyframes)
        from_kf == IF has_prev THEN keyframes[i - 1] ELSE keyframe
        to_kf == IF has_next THEN keyframes[i + 1] ELSE keyframe
        dx == RSub(to_kf.frame, from_kf.frame)
        dy == RSub(to_kf.value, from_kf.value)
        tangent_slope == IF (has_prev \/ has_next) /\ dx # Q(0) THEN RDiv(dy, dx) ELSE Q(0)
        left_length == RDiv(RSub(keyframe.frame, keyframes[i - 1].frame), Q(3))
        right_length == RDiv(RSub(keyframes[i + 1].frame, keyframe.frame), Q(3))
    IN  [keyframe EXCEPT
           !.handle_left =
               IF has_prev
               THEN <<RSub(Q(0), left_length), RSub(Q(0), RMul(left_length, tangent_slope))>>
               ELSE @,
           !.handle_right =
               IF has_next THEN <<right_length, RMul(right_length, tangent_slope)>> ELSE @]

\* calculate_bezier_handles(keyframes, original_points)
calculate_bezier_handles(keyframes) ==
    IF Len(keyframes) < 2 THEN keyframes
    ELSE [i \in 1..Len(keyframes) |-> KeyframeWithHandles(keyframes, i)]

\* evaluate_cubic_bezier(start_kf, end_kf, t)
evaluate_cubic_bezier(start_kf, end_kf, t) ==
    LET p0_value == start_kf.value
        p3_value == end_kf.value
        p1_value == IF start_kf.handle_right # None
                    THEN RAdd(p0_value, start_kf.handle_right[2]) ELSE p0_value
        p2_value == IF end_kf.handle_left # None
                    THEN RAdd(p3_value, end_kf.handle_left[2]) ELSE p3_value
        one_minus_t == RSub(Q(1), t)
        cube(x) == RMul(x, RMul(x, x))
    IN  RAdd(RAdd(RMul(cube(one_minus_t), p0_value),
                  RMul(RMul(Q(3), RMul(RMul(one_minus_t, one_minus_t), t)), p1_value)),
             RAdd(RMul(RMul(Q(3), RMul(one_minus_t, RMul(t, t))), p2_value),
                  RMul(cube(t), p3_value)))

\* What evaluate_bezier_curve appends for one sample frame: one point or none.
SampledPoint(keyframes, sample_frame) ==
    LET segments == {j \in 1..(Len(keyframes) - 1) :
                        /\ RLe(keyframes[j].frame, sample_frame)
                        /\ RLe(sample_frame, keyframes[j + 1].frame)}
    IN  IF segments # {}
        THEN LET j == CHOOSE k \in segments : \A m \in segments : k <= m
                 segment_start == keyframes[j]
                 segment_end == keyframes[j + 1]
                 t == IF segment_end.frame # segment_start.frame
                      THEN RDiv(RSub(sample_frame, segment_start.frame),
                                RSub(segment_end.frame, segment_start.frame))
                      ELSE Q(0)
             IN  <<<<sample_frame, evaluate_cubic_bezier(segment_start, segment_end, t)>>>>
        ELSE IF RLe(sample_frame, keyframes[1].frame)
        THEN <<<<sample_frame, keyframes[1].value>>>>
        ELSE IF RLe(keyframes[Len(keyframes)].frame, sample_frame)
        THEN <<<<sample_frame, keyframes[Len(keyframes)].value>>>>
        ELSE <<>>

RECURSIVE SampledPoints(_, _, _, _, _)
SampledPoints(keyframes, start_frame, frame_step, i, num_samples) ==
    IF i >= num_samples THEN <<>>
    ELSE SampledPoint(keyframes, RAdd(start_frame, RMul(Q(i), frame_step)))
         \o SampledPoints(keyframes, start_frame, frame_step, i + 1, num_samples)

\* evaluate_bezier_curve(keyframes, start_frame, end_frame, num_samples)
evaluate_bezier_curve(keyframes, start_frame, end_frame, num_samples) ==
    IF Len(keyframes) < 2
    THEN [i \in 1..Len(keyframes) |-> <<keyframes[i].frame, keyframes[i].value>>]
    ELSE LET frame_step == IF num_samples > 1
                           THEN RDiv(RSub(end_frame, start_frame), Q(num_samples - 1))
                           ELSE Q(0)
         IN  SampledPoints(keyframes, start_frame, frame_step, 0, num_samples)

\* interpolate_value(target_frame, frames, values) on the points (frames, values).
interpolate_value(target_frame, approximated) ==
    LET n == Len(approximated)
        segments == {i \in 1..(n - 1) :
                        /\ RLe(approximated[i][1], target_frame)
                        /\ RLe(target_frame, approximated[i + 1][1])}
    IN  IF RLe(target_frame, approximated[1][1]) THEN approximated[1][2]
        ELSE IF RLe(approximated[n][1], target_frame) THEN approximated[n][2]
        ELSE IF segments # {}
        THEN LET i == CHOOSE k \in segments : \A m \in segments : k <= m
                 t == IF approximated[i + 1][1] # approximated[i][1]
                      THEN RDiv(RSub(target_frame, approximated[i][1]),
                                RSub(approximated[i + 1][1], approximated[i][1]))
                      ELSE Q(0)
             IN  RAdd(approximated[i][2],
                      RMul(t, RSub(approximated[i + 1][2], approximated[i][2])))
        ELSE approximated[1][2]

\* float('inf')
Infinity == <<1, 0>>

\* abs(orig_value - approx_value) at original point i
PointError(original_points, approximated, i) ==
    RAbs(RSub(original_points[i][2],
              interpolate_value(original_points[i][1], approximated)))

RECURSIVE MaxError(_, _, _)
MaxError(original_points, approximated, i) ==
    IF i = 0 THEN Q(0)
    ELSE Strict({RMax(rest, PointError(original_points, approximated, i)) :
                    rest \in {MaxError(original_points, approximated, i - 1)}})

\* calculate_curve_error(original_points, approximated_points)
calculate_curve_error(original_points, approximated_points) ==
    IF original_points = <<>> \/ approximated_points = <<>> THEN Infinity
    ELSE MaxError(original_points, approximated_points, Len(original_points))

\* "for orig_frame, orig_value in original_points": the first point of the
\* greatest error; max_error_frame stays None while no error exceeds 0.
RECURSIVE WorstPoint(_, _, _, _)
WorstPoint(original_points, approximated, i, worst) ==
    IF i > Len(original_points) THEN worst
    ELSE Strict({WorstPoint(original_points, approximated, i + 1, next) :
                    next \in {IF RLt(worst.max_error_value,
                                     PointError(original_points, approximated, i))
                              THEN [max_error_value |->
                                        PointError(original_points, approximated, i),
                                    max_error_frame |-> original_points[i][1]]
                              ELSE worst}})

\* "for i in range(len(current_keyframes)): if ...frame > new_keyframe.frame:
\* insert(i, new_keyframe)", else append.
InsertKeyframe(current_keyframes, new_keyframe) ==
    LET later == {i \in 1..Len(current_keyframes) :
                     RLt(new_keyframe.frame, current_keyframes[i].frame)}
    IN  IF later # {}
        THEN LET i == CHOOSE k \in later : \A m \in later : k <= m
             IN  SubSeq(current_keyframes, 1, i - 1) \o <<new_keyframe>>
                 \o SubSeq(current_keyframes, i, Len(current_keyframes))
        ELSE Append(current_keyframes, new_keyframe)

\* One pass of "for iteration in range(max_iterations)" once the curve is
\* evaluated; stop records a break.
RefineWith(current_keyframes, original_points, error_tolerance, approximated) ==
    LET max_error == calculate_curve_error(original_points, approximated)
        worst == WorstPoint(original_points, approximated, 1,
                            [max_error_value |-> Q(0), max_error_frame |-> None])
        found == {i \in 1..Len(original_points) :
                     original_points[i][1] = worst.max_error_frame}
        new_point == original_points[CHOOSE k \in found : \A m \in found : k <= m]
    IN  IF RLe(max_error, error_tolerance)
        THEN [keyframes |-> current_keyframes, stop |-> TRUE]
        ELSE IF worst.max_error_frame = None \/ found = {}
        THEN [keyframes |-> current_keyframes, stop |-> TRUE]
        ELSE [keyframes |->
                  calculate_bezier_handles(
                      InsertKeyframe(current_keyframes,
                                     KeyframeData(new_point[1], new_point[2]))),
              stop |-> FALSE]

RefinementPass(current_keyframes, original_points, error_tolerance) ==
    Strict({RefineWith(current_keyframes, original_points, error_tolerance, approximated) :
               approximated \in {evaluate_bezier_curve(
                                     current_keyframes,
                                     original_points[1][1],
                                     original_points[Len(original_points)][1],
                                     Len(original_points))}})

RECURSIVE RefinementLoop(_, _, _, _, _)
RefinementLoop(current_keyframes, original_points, error_tolerance, iteration, max_iterations) ==
    IF iteration >= max_iterations THEN current_keyframes
    ELSE Strict({IF pass.stop THEN pass.keyframes
                 ELSE RefinementLoop(pass.keyframes, original_points, error_tolerance,
                                     iteration + 1, max_iterations) :
                    pass \in {RefinementPass(current_keyframes, original_points,
                                             error_tolerance)}})

\* iterative_refinement(keyframes, original_points, error_tolerance, max_iterations)
iterative_refinement(keyframes, original_points, error_tolerance, max_iterations) ==
    RefinementLoop(keyframes, original_points, error_tolerance, 0, max_iterations)

\* reduce_keyframes_to_bezier(dense_points, error_tolerance, max_iterations)
reduce_keyframes_to_bezier(dense_points, error_tolerance, max_iterations) ==
    IF Len(dense_points) < 2
    THEN [i \in 1..Len(dense_points) |->
             KeyframeData(dense_points[i][1], dense_points[i][2])]
    ELSE Strict({iterative_refinement(keyframes_with_handles, dense_points,
                                      error_tolerance, max_iterations) :
                    keyframes_with_handles \in
                        {LET combined_indices ==
                                 SortedSeq(find_critical_points(dense_points)
                                           \cup Range(douglas_peucker_reduce(
                                                          dense_points, error_tolerance)))
                         IN  calculate_bezier_handles(
                                 [k \in 1..Len(combined_indices) |->
                                     KeyframeData(PointAt(dense_points, combined_indices[k])[1],
                                                  PointAt(dense_points, combined_indices[k])[2])])}})

\* Error tolerances: 0.1 and 0.5.
Tolerances == {<<1, 10>>, <<1, 2>>}

\* Dense per-frame data: one point at each of the frames 1..n.
DensePoints ==
    UNION {{[i \in 1..n |-> <<Q(i), Q(values[i])>>] : values \in [1..n -> 0..MaxValue]} :
           n \in 2..MaxPoints}

InitReduce ==
    /\ FrozenScene
    /\ fn_in \in [fn : {"reduce_keyframes_to_bezier"},
                  dense_points : DensePoints,
                  error_tolerance : Tolerances,
                  max_iterations : 1..MaxIterations]
    /\ fn_out = Pending

ReduceKeyframesToBezier ==
    /\ fn_in.fn = "reduce_keyframes_to_bezier"
    /\ fn_out = Pending
    /\ fn_out' = Returned(reduce_keyframes_to_bezier(fn_in.dense_points,
                                                     fn_in.error_tolerance,
                                                     fn_in.max_iterations))
    /\ UNCHANGED <<fn_in, scene_vars>>

NextReduce == ReduceKeyframesToBezier

SpecReduce == InitReduce /\ [][NextReduce]_vars

\* The error iterative_refinement computes for keyframes: calculate_curve_error
\* between the dense points and the Bezier curve sampled once per dense point.
ErrorOf(keyframes, dense_points) ==
    calculate_curve_error(dense_points,
                          evaluate_bezier_curve(keyframes,
                                                dense_points[1][1],
                                                dense_points[Len(dense_points)][1],
                                                Len(dense_points)))

\* C9: the keyframes reduce_keyframes_to_bezier returns approximate the dense
\* points within the tolerance: the maximum error calculate_curve_error finds
\* between the dense points and the evaluated Bezier curve of the returned
\* keyframes is at most error_tolerance.
C9_ReducedWithinTolerance ==
    (fn_in.fn = "reduce_keyframes_to_bezier" /\ fn_out.done)
        => RLe(ErrorOf(fn_out.value, fn_in.dense_points), fn_in.error_tolerance)


(***************************************************************************)
(* convert_speed_data_to_segments (SpecSegments)                           *)
(***************************************************************************)
MaxCurveFrame == 5
MaxMinSegmentFrames == 3

\* "speed_tolerance = 0.03"
SpeedTolerance == <<3, 100>>

\* Speeds of the curve: normal, one percent faster, double.
CurveSpeeds == {<<1, 1>>, <<101, 100>>, <<2, 1>>}

Segment(start_frame, end_frame, speed) ==
    [start_frame |-> start_frame, end_frame |-> end_frame,
     speed_multiplier |-> speed, blend_frames |-> 0]

\* One pass of "for i, frame in enumerate(frames)" with i > 0; frames[i] here is
\* frames[i - 1] of the code.
SegmentStep(st, speed_curve_data, frames, i, end_frame, min_segment_frames) ==
    LET frame == frames[i]
        frame_speed == speed_curve_data[frame]
        speed_change == RAbs(RSub(frame_speed, st.current_speed))
        segment_length == frame - st.current_segment_start
        is_last == (i = Len(frames))
        should_end_segment ==
            \/ RLt(SpeedTolerance, speed_change) /\ segment_length >= min_segment_frames
            \/ is_last
        segment_end == IF is_last THEN end_frame ELSE frame - 1
    IN  IF should_end_segment
        THEN [segments |->
                  IF segment_end >= st.current_segment_start
                  THEN Append(st.segments,
                              Segment(st.current_segment_start, segment_end,
                                      st.current_speed))
                  ELSE st.segments,
              current_segment_start |->
                  IF ~is_last THEN frame ELSE st.current_segment_start,
              current_speed |-> IF ~is_last THEN frame_speed ELSE st.current_speed]
        ELSE st

RECURSIVE SegmentLoop(_, _, _, _, _, _)
SegmentLoop(st, speed_curve_data, frames, i, end_frame, min_segment_frames) ==
    IF i > Len(frames) THEN st
    ELSE Strict({SegmentLoop(next, speed_curve_data, frames, i + 1, end_frame,
                             min_segment_frames) :
                    next \in {SegmentStep(st, speed_curve_data, frames, i, end_frame,
                                          min_segment_frames)}})

\* "Ensure no gaps or overlaps" and "Ensure the last segment ends at the
\* specified end_frame": the loop reads end_frame values it does not write.
MakeAdjacent(segments, end_frame) ==
    [i \in DOMAIN segments |->
        [segments[i] EXCEPT
            !.start_frame = IF i > 1 THEN segments[i - 1].end_frame + 1 ELSE @,
            !.end_frame = IF i = Len(segments) THEN end_frame ELSE @]]

\* The body of convert_speed_data_to_segments for a non-empty speed_curve_data
\* whose first segment starts at first_start.
SegmentsFrom(speed_curve_data, first_start, start_frame, end_frame, min_segment_frames) ==
    LET frames == SortedSeq(DOMAIN speed_curve_data)
        st == SegmentLoop([segments |-> <<>>,
                           current_segment_start |-> first_start,
                           current_speed |-> speed_curve_data[frames[1]]],
                          speed_curve_data, frames, 2, end_frame, min_segment_frames)
    IN  Strict({MakeAdjacent(IF final.segments = <<>>
                             THEN <<Segment(start_frame, end_frame, final.current_speed)>>
                             ELSE final.segments,
                             end_frame) :
                    final \in {st}})

\* convert_speed_data_to_segments that starts the first segment at the first key.
convert_speed_data_to_segments_FromFirstKey(speed_curve_data, start_frame, end_frame, min_segment_frames) ==
    IF DOMAIN speed_curve_data = {} THEN <<>>
    ELSE SegmentsFrom(speed_curve_data,
                      CHOOSE k \in DOMAIN speed_curve_data :
                          \A other \in DOMAIN speed_curve_data : k <= other,
                      start_frame, end_frame, min_segment_frames)

\* convert_speed_data_to_segments(speed_curve_data, start_frame, end_frame,
\* min_segment_frames=10); speed_curve_data is a function from frames to speeds.
convert_speed_data_to_segments(speed_curve_data, start_frame, end_frame, min_segment_frames) ==
    IF DOMAIN speed_curve_data = {} THEN <<>>
    ELSE SegmentsFrom(speed_curve_data, start_frame, start_frame, end_frame,
                      min_segment_frames)

SpeedCurves ==
    UNION {[keys -> CurveSpeeds] : keys \in SUBSET (1..MaxCurveFrame)}

InitSegments ==
    /\ FrozenScene
    /\ fn_in \in [fn : {"convert_speed_data_to_segments"},
                  speed_curve_data : SpeedCurves,
                  start_frame : {1, 2},
                  end_frame : {MaxCurveFrame - 1, MaxCurveFrame},
                  min_segment_frames : 0..MaxMinSegmentFrames]
    /\ fn_out = Pending

ConvertSpeedDataToSegments ==
    /\ fn_in.fn = "convert_speed_data_to_segments"
    /\ fn_out = Pending
    /\ fn_out' = Returned(convert_speed_data_to_segments(fn_in.speed_curve_data,
                                                         fn_in.start_frame,
                                                         fn_in.end_frame,
                                                         fn_in.min_segment_frames))
    /\ UNCHANGED <<fn_in, scene_vars>>

NextSegments == ConvertSpeedDataToSegments

SpecSegments == InitSegments /\ [][NextSegments]_vars

SegmentsReturned ==
    /\ fn_in.fn = "convert_speed_data_to_segments"
    /\ fn_out.done

KeysInRange ==
    /\ DOMAIN fn_in.speed_curve_data # {}
    /\ DOMAIN fn_in.speed_curve_data \subseteq fn_in.start_frame..fn_in.end_frame
    /\ fn_in.start_frame <= fn_in.end_frame
    /\ fn_in.min_segment_frames >= 1

\* C12: for a non-empty speed_curve_data with all keys in [start_frame,
\* end_frame], start_frame <= end_frame and min_segment_frames >= 1, the
\* segments of convert_speed_data_to_segments tile the range: the first starts
\* at start_frame, each later one starts at the end_frame of the one before
\* plus 1, none ends before it starts, and the last ends at end_frame.
C12_SegmentsTileRange ==
    (SegmentsReturned /\ KeysInRange)
        => LET segments == fn_out.value
           IN  /\ Len(segments) >= 1
               /\ segments[1].start_frame = fn_in.start_frame
               /\ \A i \in 2..Len(segments) :
                      segments[i].start_frame = segments[i - 1].end_frame + 1
               /\ \A i \in 1..Len(segments) :
                      segments[i].end_frame >= segments[i].start_frame
               /\ segments[Len(segments)].end_frame = fn_in.end_frame

\* Two segments came back for keys in range of which the first is not start_frame.
C12_Witness ==
    /\ SegmentsReturned
    /\ KeysInRange
    /\ fn_in.start_frame \notin DOMAIN fn_in.speed_curve_data
    /\ Len(fn_out.value) = 2

\* C13: when the range holds at least min_segment_frames frames, every segment
\* of convert_speed_data_to_segments spans at least min_segment_frames frames.
C13_SegmentsSpanMinimum ==
    (SegmentsReturned
        /\ fn_in.end_frame - fn_in.start_frame + 1 >= fn_in.min_segment_frames)
        => \A i \in 1..Len(fn_out.value) :
               fn_out.value[i].end_frame - fn_out.value[i].start_frame + 1
                   >= fn_in.min_segment_frames


(***************************************************************************)
(* apply_speed_control (SpecSpeedControl). The angle at a sampled point is *)
(* an input: the curvature the code derives from it is 0.0 below 2 degrees *)
(* of deviation and deviation / 90 above.                                  *)
(***************************************************************************)
MaxSpeedFrames == 3

\* "step = 3"
CurvatureStep == 3

\* "window_size = 10"
WindowSize == 10

CurvatureValues == {<<0, 1>>, <<1, 2>>, <<1, 1>>}

\* len(mesh.vertices): too few to sample, too few for a triplet, enough.
SampleCounts == {2, 2 * CurvatureStep - 1, 4 * CurvatureStep - 1}

Min(a, b) == IF a < b THEN a ELSE b
Max(a, b) == IF a < b THEN b ELSE a

RECURSIVE RSum(_, _, _)
RSum(seq, from, to) ==
    IF from > to THEN Q(0) ELSE RAdd(seq[from], RSum(seq, from + 1, to))

RECURSIVE RMinOf(_, _)
RMinOf(seq, i) ==
    IF i = 1 THEN seq[1]
    ELSE Strict({IF RLt(seq[i], rest) THEN seq[i] ELSE rest : rest \in {RMinOf(seq, i - 1)}})

RECURSIVE RMaxOf(_, _)
RMaxOf(seq, i) ==
    IF i = 1 THEN seq[1]
    ELSE Strict({RMax(seq[i], rest) : rest \in {RMaxOf(seq, i - 1)}})

\* "Handle edge cases (first and last points)": triplet_curvatures holds one
\* curvature for each i in range(step, len(positions) - step).
EdgeCurvatures(triplet_curvatures, num_positions) ==
    IF triplet_curvatures # <<>>
    THEN <<triplet_curvatures[1]>> \o triplet_curvatures
             \o <<triplet_curvatures[Len(triplet_curvatures)]>>
    ELSE [i \in 1..num_positions |-> Q(0)]

\* "Apply threshold to filter out very small curvatures"
ThresholdedCurvatures(curvatures, curvature_threshold) ==
    [i \in DOMAIN curvatures |->
        IF RLt(curvatures[i], curvature_threshold) THEN Q(0) ELSE curvatures[i]]

\* "Smooth curvatures to avoid jitter"; i counts from 1, the code's i from 0.
SmoothedCurvatures(thresholded_curvatures) ==
    [i \in DOMAIN thresholded_curvatures |->
        LET start_idx == Max(0, (i - 1) - WindowSize \div 2)
            end_idx == Min(Len(thresholded_curvatures), (i - 1) + WindowSize \div 2 + 1)
        IN  RDiv(RSum(thresholded_curvatures, start_idx + 1, end_idx),
                 Q(end_idx - start_idx))]

\* "Convert curvatures to speeds"
SpeedFactors(smoothed_curvatures) ==
    LET min_curvature == RMinOf(smoothed_curvatures, Len(smoothed_curvatures))
        max_curvature == RMaxOf(smoothed_curvatures, Len(smoothed_curvatures))
    IN  IF RLt(min_curvature, max_curvature) /\ RLt(Q(0), max_curvature)
        THEN [i \in DOMAIN smoothed_curvatures |->
                 IF smoothed_curvatures[i] = Q(0) THEN Q(1)
                 ELSE RSub(Q(1), RDiv(RSub(smoothed_curvatures[i], min_curvature),
                                      RSub(max_curvature, min_curvature)))]
        ELSE [i \in DOMAIN smoothed_curvatures |-> Q(1)]

\* "Calculate cumulative distances based on speeds"
SegmentDistances(speeds, min_speed_factor, max_speed_factor) ==
    [i \in 1..(Len(speeds) - 1) |->
        LET avg_speed == RDiv(RAdd(speeds[i], speeds[i + 1]), Q(2))
        IN  RAdd(min_speed_factor,
                 RMul(avg_speed, RSub(max_speed_factor, min_speed_factor)))]

CumulativeDistances(segment_distances) ==
    [i \in 1..(Len(segment_distances) + 1) |-> RSum(segment_distances, 1, i - 1)]

\* "Normalize cumulative distances to 0-1 range"
NormalizedPositions(cumulative_distances) ==
    LET total_distance == cumulative_distances[Len(cumulative_distances)]
    IN  IF RLt(Q(0), total_distance)
        THEN [i \in DOMAIN cumulative_distances |->
                 RDiv(cumulative_distances[i], total_distance)]
        ELSE [i \in DOMAIN cumulative_distances |->
                 Rat(i - 1, Len(cumulative_distances) - 1)]

\* The first i in range(len(normalized_positions) - 1) with t1 <= progress <= t2.
RECURSIVE InterpolatedPosition(_, _, _)
InterpolatedPosition(normalized_positions, frame_progress, i) ==
    LET t1 == Rat(i, Len(normalized_positions) - 1)
        t2 == Rat(i + 1, Len(normalized_positions) - 1)
        local_t == IF RLt(t1, t2)
                   THEN RDiv(RSub(frame_progress, t1), RSub(t2, t1))
                   ELSE Q(0)
    IN  IF i >= Len(normalized_positions) - 1 THEN frame_progress
        ELSE IF RLe(t1, frame_progress) /\ RLe(frame_progress, t2)
        THEN RAdd(normalized_positions[i + 1],
                  RMul(local_t, RSub(normalized_positions[i + 2],
                                     normalized_positions[i + 1])))
        ELSE InterpolatedPosition(normalized_positions, frame_progress, i + 1)

\* "position = max(0.0, min(1.0, position))"
Clamp(position) ==
    IF RLt(position, Q(0)) THEN Q(0) ELSE IF RLt(Q(1), position) THEN Q(1) ELSE position

\* A loop over one frame less than "range(total_frames + 1)".
FrameOffsets_WithoutLast(total_frames) == 0..(total_frames - 1)

\* "for frame_offset in range(total_frames + 1)"
FrameOffsets(total_frames) == 0..total_frames

\* The offset_factor keyframes that "Set keyframes for each frame" inserts.
OffsetKeyframes(normalized_positions, start_frame, total_frames) ==
    [current_frame \in {start_frame + frame_offset :
                            frame_offset \in FrameOffsets(total_frames)} |->
        Clamp(InterpolatedPosition(normalized_positions,
                                   Rat(current_frame - start_frame, total_frames), 0))]

\* apply_speed_control(follow_path_constraint, curve_obj, start_frame, end_frame,
\* min_speed_factor, max_speed_factor, curvature_threshold): its return value
\* and the keyframes it inserted on offset_factor.
apply_speed_control(num_positions, triplet_curvatures, start_frame, end_frame, min_speed_factor, max_speed_factor, curvature_threshold) ==
    LET total_frames == end_frame - start_frame
    IN  IF total_frames <= 0 THEN [result |-> FALSE, keyframes |-> <<>>]
        ELSE IF num_positions < 3 THEN [result |-> FALSE, keyframes |-> <<>>]
        ELSE Strict({[result |-> TRUE,
                      keyframes |-> OffsetKeyframes(normalized_positions, start_frame,
                                                    total_frames)] :
                normalized_positions \in {NormalizedPositions(cumulative_distances) :
                cumulative_distances \in {CumulativeDistances(segment_distances) :
                segment_distances \in {SegmentDistances(speeds, min_speed_factor,
                                                        max_speed_factor) :
                speeds \in {SpeedFactors(smoothed_curvatures) :
                smoothed_curvatures \in {SmoothedCurvatures(thresholded_curvatures) :
                thresholded_curvatures \in {ThresholdedCurvatures(curvatures,
                                                                  curvature_threshold) :
                curvatures \in {EdgeCurvatures(triplet_curvatures,
                                               num_positions)}}}}}}}})

\* The sampled curves: the number of positions and the curvature of each triplet.
SampledCurves ==
    UNION {[num_positions : {n},
            triplet_curvatures :
                [1..Max(0, n - 2 * CurvatureStep) -> CurvatureValues]] :
           n \in SampleCounts}

InitSpeedControl ==
    /\ FrozenScene
    /\ fn_in \in [fn : {"apply_speed_control"},
                  curve : SampledCurves,
                  start_frame : {1},
                  end_frame : 1..(1 + MaxSpeedFrames),
                  min_speed_factor : {<<-1, 1>>, <<0, 1>>, <<1, 2>>},
                  max_speed_factor : {<<0, 1>>, <<1, 1>>, <<2, 1>>},
                  curvature_threshold : {<<1, 1000>>, <<3, 4>>}]
    /\ fn_out = Pending

ApplySpeedControl ==
    /\ fn_in.fn = "apply_speed_control"
    /\ fn_out = Pending
    /\ fn_out' = Returned(apply_speed_control(fn_in.curve.num_positions,
                                              fn_in.curve.triplet_curvatures,
                                              fn_in.start_frame, fn_in.end_frame,
                                              fn_in.min_speed_factor,
                                              fn_in.max_speed_factor,
                                              fn_in.curvature_threshold))
    /\ UNCHANGED <<fn_in, scene_vars>>

NextSpeedControl == ApplySpeedControl

SpecSpeedControl == InitSpeedControl /\ [][NextSpeedControl]_vars

SpeedControlApplied ==
    /\ fn_in.fn = "apply_speed_control"
    /\ fn_out.done
    /\ fn_out.value.result
    /\ RLe(Q(0), fn_in.min_speed_factor)
    /\ RLe(Q(0), fn_in.max_speed_factor)

\* C14: when apply_speed_control returns True for speed factors that are not
\* negative, it has put one offset_factor keyframe on every frame from
\* start_frame to end_frame, and the keyframed values lie in [0, 1], never
\* decrease from one frame to the next, are 0 at start_frame and 1 at end_frame.
C14_KeyframesMonotoneFromZeroToOne ==
    SpeedControlApplied
        => LET keyframes == fn_out.value.keyframes
           IN  /\ DOMAIN keyframes = fn_in.start_frame..fn_in.end_frame
               /\ \A frame \in DOMAIN keyframes :
                      RLe(Q(0), keyframes[frame]) /\ RLe(keyframes[frame], Q(1))
               /\ \A frame \in fn_in.start_frame..(fn_in.end_frame - 1) :
                      RLe(keyframes[frame], keyframes[frame + 1])
               /\ keyframes[fn_in.start_frame] = Q(0)
               /\ keyframes[fn_in.end_frame] = Q(1)

\* The speed varied along the curve: a keyframe is off the straight line from
\* 0 at start_frame to 1 at end_frame.
C14_Witness ==
    /\ SpeedControlApplied
    /\ fn_in.end_frame - fn_in.start_frame = MaxSpeedFrames
    /\ \E frame \in DOMAIN fn_out.value.keyframes :
           fn_out.value.keyframes[frame]
               # Rat(frame - fn_in.start_frame, fn_in.end_frame - fn_in.start_frame)


(***************************************************************************)
(* douglas_peucker_reduce on any list of points (SpecDouglasPeucker)       *)
(***************************************************************************)
MaxLinePoints == 4
MaxCoordinate == 1

\* Tolerances from 0 on.
LineTolerances == {<<0, 1>>, <<1, 2>>, <<1, 1>>}

\* Points in any order, repeated points included.
LinePoints ==
    UNION {[1..n -> {<<Q(x), Q(y)>> : x \in 0..MaxCoordinate, y \in 0..MaxCoordinate}] :
           n \in 2..MaxLinePoints}

InitDouglasPeucker ==
    /\ FrozenScene
    /\ fn_in \in [fn : {"douglas_peucker_reduce"},
                  points : LinePoints,
                  tolerance : LineTolerances]
    /\ fn_out = Pending

DouglasPeuckerReduce ==
    /\ fn_in.fn = "douglas_peucker_reduce"
    /\ fn_out = Pending
    /\ fn_out' = Returned(douglas_peucker_reduce(fn_in.points, fn_in.tolerance))
    /\ UNCHANGED <<fn_in, scene_vars>>

NextDouglasPeucker == DouglasPeuckerReduce

SpecDouglasPeucker == InitDouglasPeucker /\ [][NextDouglasPeucker]_vars

\* C15: for at least two points and a tolerance from 0 on,
\* douglas_peucker_reduce returns indices of the list in strictly increasing
\* order, the first and the last index among them, and every point between two
\* consecutive kept indices lies within tolerance of the line through the two
\* kept points (of the kept point itself where the two coincide).
C15_ReductionKeepsPointsWithinTolerance ==
    (fn_in.fn = "douglas_peucker_reduce" /\ fn_out.done)
        => LET kept == fn_out.value
               points == fn_in.points
           IN  /\ Len(kept) >= 2
               /\ kept[1] = 0
               /\ kept[Len(kept)] = Len(points) - 1
               /\ \A j \in 1..Len(kept) : kept[j] \in 0..(Len(points) - 1)
               /\ \A j \in 1..(Len(kept) - 1) :
                      /\ kept[j] < kept[j + 1]
                      /\ \A i \in (kept[j] + 1)..(kept[j + 1] - 1) :
                             RLe(perpendicular_distance_squared(
                                     PointAt(points, i), PointAt(points, kept[j]),
                                     PointAt(points, kept[j + 1])),
                                 RMul(fn_in.tolerance, fn_in.tolerance))

\* Of the two points between the ends one was kept and one was dropped.
C15_Witness ==
    /\ fn_in.fn = "douglas_peucker_reduce"
    /\ fn_out.done
    /\ Len(fn_in.points) = 4
    /\ Len(fn_out.value) = 3
    /\ RLt(Q(0), fn_in.tolerance)
====
